---- MODULE Spec2Model ----
(***************************************************************************)
(* Model of the partition-table codec (fdisk/src/partition.rs), the CRC32  *)
(* engine (fdisk/src/crc32.rs) and the ext2 initializer (mkfs/src/ext2.rs) *)
(* of maestro-utils.                                                       *)
(*                                                                         *)
(* A device is a sparse map from byte offsets to bytes: offsets outside    *)
(* the map hold zero (a fresh image).  Values wider than 31 bits (the      *)
(* CRC32 checksums) are kept as little-endian byte tuples.                 *)
(***************************************************************************)
EXTENDS Integers, Sequences, FiniteSets, TLC

VARIABLES
    dev,            \* device content: [offset -> byte], zero elsewhere
    sectors_count,  \* number of 512-byte sectors of the device
    pc,             \* position of the operation in progress
    table,          \* the PartitionTable handed to write / serialize
    gpt,            \* the in-memory GPT header of the write in progress
    idx,            \* loop index of the write in progress
    wlog,           \* the device writes performed so far, in order
    scrambled,      \* which part of the device was damaged after the write
    result,         \* outcome of the last PartitionTable::read
    path,           \* device path given to serialize
    script,         \* text produced by serialize
    parsed,         \* outcome of deserialize
    fs,             \* state of Ext2Factory::create (configuration and locals)
    call            \* a function applied on its own: its name, arguments and outcome

vars == <<dev, sectors_count, pc, table, gpt, idx, wlog, scrambled, result,
          path, script, parsed, fs, call>>

(***************************************************************************)
(* Bytes and little-endian encodings.                                      *)
(***************************************************************************)
Byte == 0..255

Min(a, b) == IF a <= b THEN a ELSE b

Max(a, b) == IF a >= b THEN a ELSE b

RECURSIVE Pow256(_)
Pow256(k) == IF k = 0 THEN 1 ELSE 256 * Pow256(k - 1)

Zeros(n) == [k \in 1..n |-> 0]

\* to_le_bytes of an unsigned value below 2^31, on w bytes
LE(v, w) == [k \in 1..w |-> IF k <= 4 THEN (v \div Pow256(k - 1)) % 256 ELSE 0]

\* to_le_bytes of a signed 64-bit value of magnitude below 2^31 (two's complement)
LE64s(v) ==
    IF v >= 0 THEN LE(v, 8)
    ELSE [k \in 1..8 |-> 255 - LE(-v - 1, 8)[k]]

\* from_le_bytes of an unsigned field; the model keeps values below 2^31
RECURSIVE FromLE(_)
FromLE(b) ==
    IF b = <<>> THEN 0
    ELSE b[1] + 256 * FromLE(Tail(b))

\* from_le_bytes of a signed 64-bit field
FromLE64s(b) ==
    IF b[8] >= 128 THEN -(FromLE([k \in 1..8 |-> 255 - b[k]]) + 1)
    ELSE FromLE(b)

RECURSIVE XorBits(_, _, _)
XorBits(a, b, n) ==
    IF n = 0 THEN 0
    ELSE ((a + b) % 2) + 2 * XorBits(a \div 2, b \div 2, n - 1)

XorTable == [a \in Byte |-> [b \in Byte |-> XorBits(a, b, 8)]]

Xor8(a, b) == XorTable[a][b]

\* a u32 as the tuple of its four little-endian bytes
Xor32(a, b) == <<Xor8(a[1], b[1]), Xor8(a[2], b[2]), Xor8(a[3], b[3]), Xor8(a[4], b[4])>>

Shr1(a) ==
    <<(a[1] \div 2) + (a[2] % 2) * 128, (a[2] \div 2) + (a[3] % 2) * 128,
      (a[3] \div 2) + (a[4] % 2) * 128, a[4] \div 2>>

Shr8(a) == <<a[2], a[3], a[4], 0>>

Not32(a) == <<255 - a[1], 255 - a[2], 255 - a[3], 255 - a[4]>>

(***************************************************************************)
(* crc32.rs                                                                *)
(***************************************************************************)
GPT_CHECKSUM_POLYNOM == <<32, 131, 184, 237>>   \* 0xedb88320

\* the inner loop: for j in (0..256).step_by(2 * i) { table[i ^ j] = crc ^ table[j] }.
\* j is a multiple of 2 * i, so i ^ j = i + j, and the slots read (multiples of 2 * i)
\* are never slots written (i more than a multiple): all iterations read the old table
lookuptable_inner_no_fold(tbl, i, crc) ==
    [k \in 0..255 |-> IF k % (2 * i) = i THEN crc ELSE tbl[k]]

lookuptable_inner(tbl, i, crc) ==
    [k \in 0..255 |-> IF k % (2 * i) = i THEN Xor32(crc, tbl[k - i]) ELSE tbl[k]]

RECURSIVE lookuptable_outer(_, _, _, _)
lookuptable_outer(tbl, i, crc, polynom) ==
    IF i = 0 THEN tbl
    ELSE LET c == IF crc[1] % 2 # 0 THEN Xor32(Shr1(crc), polynom) ELSE Shr1(crc)
         IN  lookuptable_outer(lookuptable_inner(tbl, i, c), i \div 2, c, polynom)

compute_lookuptable(polynom) ==
    lookuptable_outer([k \in 0..255 |-> <<0, 0, 0, 0>>], 128, <<1, 0, 0, 0>>, polynom)

crc32_table == compute_lookuptable(GPT_CHECKSUM_POLYNOM)

\* the loop `for b in data`, folded over data[lo..hi] by halves
RECURSIVE compute_loop(_, _, _, _, _)
compute_loop(data, lo, hi, crc, tbl) ==
    IF lo > hi THEN crc
    ELSE IF lo = hi THEN Xor32(tbl[Xor8(crc[1], data[lo])], Shr8(crc))
    ELSE LET mid == (lo + hi) \div 2
             left == compute_loop(data, lo, mid, crc, tbl)
         IN  \* the test is always true: it evaluates the first half before the second
             IF left[1] >= 0 THEN compute_loop(data, mid + 1, hi, left, tbl) ELSE left

\* Sarwate algorithm
compute(data, tbl) == Not32(compute_loop(data, 1, Len(data), <<255, 255, 255, 255>>, tbl))

(***************************************************************************)
(* The block device: seek + read_exact / write_all at absolute offsets.    *)
(***************************************************************************)
SECTOR_SIZE == 512

ReadBytes(d, off, len) ==
    [k \in 1..len |-> IF (off + k - 1) \in DOMAIN d THEN d[off + k - 1] ELSE 0]

WriteBytes(d, off, bytes) ==
    LET written == [o \in off..(off + Len(bytes) - 1) |-> bytes[o - off + 1]]
    IN  \* the bytes written replace those of d; when d ends before off the two functions
        \* have no offset in common and either order of @@ gives the same function
        IF \A a \in DOMAIN d : a < off THEN d @@ written ELSE written @@ d

\* read_exact fails when the range runs past the end of the device
InDevice(off, len, n) == off + len <= n * SECTOR_SIZE

(***************************************************************************)
(* partition.rs: values                                                    *)
(***************************************************************************)
None == <<>>

Some(v) == <<v>>

ZeroGuid == Zeros(16)

MBRType(t) == [kind |-> "MBR", id |-> t, guid |-> ZeroGuid]

GPTType(g) == [kind |-> "GPT", id |-> 0, guid |-> g]

Part(s, z, t, u, b) == [start |-> s, size |-> z, part_type |-> t, uuid |-> u, bootable |-> b]

MBR_SIGNATURE == <<85, 170>>     \* 0xaa55, little-endian

GPT_SIGNATURE == <<69, 70, 73, 32, 80, 65, 82, 84>>     \* b"EFI PART"

translate_lba(lba, storage_size) ==
    IF lba < 0
    THEN IF -lba <= storage_size THEN Some(storage_size - (-lba)) ELSE None
    ELSE IF lba < storage_size THEN Some(lba) ELSE None

(***************************************************************************)
(* partition.rs: on-disk layouts (#[repr(C, packed)])                      *)
(***************************************************************************)
MBRPartitionBytes(e) ==
    <<e.attrs>> \o Zeros(3) \o <<e.partition_type>> \o Zeros(3)
        \o LE(e.lba_start, 4) \o LE(e.sectors_count, 4)

MBRPartitionDefault == [attrs |-> 0, partition_type |-> 0, lba_start |-> 0, sectors_count |-> 0]

\* the MBRTable from disk_signature on: write() skips the 440 bytes of boot code
MBRTableTail(entries) ==
    Zeros(4) \o Zeros(2)
        \o MBRPartitionBytes(entries[1]) \o MBRPartitionBytes(entries[2])
        \o MBRPartitionBytes(entries[3]) \o MBRPartitionBytes(entries[4])
        \o MBR_SIGNATURE

GPTBytes(h) ==
    h.signature \o LE(h.revision, 4) \o LE(h.hdr_size, 4) \o h.checksum \o LE(h.reserved, 4)
        \o LE64s(h.hdr_lba) \o LE64s(h.alternate_hdr_lba)
        \o LE64s(h.first_usable) \o LE64s(h.last_usable)
        \o h.disk_guid \o LE64s(h.entries_start)
        \o LE(h.entries_number, 4) \o LE(h.entry_size, 4) \o h.entries_checksum

GPT_SIZE == 92

GPTFromBytes(b) ==
    [signature |-> SubSeq(b, 1, 8),
     revision |-> FromLE(SubSeq(b, 9, 12)),
     hdr_size |-> FromLE(SubSeq(b, 13, 16)),
     checksum |-> SubSeq(b, 17, 20),
     reserved |-> FromLE(SubSeq(b, 21, 24)),
     hdr_lba |-> FromLE64s(SubSeq(b, 25, 32)),
     alternate_hdr_lba |-> FromLE64s(SubSeq(b, 33, 40)),
     first_usable |-> FromLE64s(SubSeq(b, 41, 48)),
     last_usable |-> FromLE64s(SubSeq(b, 49, 56)),
     disk_guid |-> SubSeq(b, 57, 72),
     entries_start |-> FromLE64s(SubSeq(b, 73, 80)),
     entries_number |-> FromLE(SubSeq(b, 81, 84)),
     entry_size |-> FromLE(SubSeq(b, 85, 88)),
     entries_checksum |-> SubSeq(b, 89, 92)]

GPT_ENTRY_SIZE == 128

GPTEntryBytes(e) ==
    e.partition_type \o e.guid \o LE64s(e.start) \o LE64s(e.end)
        \o LE(e.attributes, 8) \o Zeros(72)

GPTEntryFromBytes(b) ==
    [partition_type |-> SubSeq(b, 1, 16),
     guid |-> SubSeq(b, 17, 32),
     start |-> FromLE64s(SubSeq(b, 33, 40)),
     end |-> FromLE64s(SubSeq(b, 41, 48)),
     attributes |-> FromLE(SubSeq(b, 49, 56))]

(***************************************************************************)
(* partition.rs: PartitionTableType::read and PartitionTable::read.        *)
(* A read yields [status, parts]: "some" (a table was found), "none"       *)
(* (Ok(None)), "err" (an io::Error) or "panic" (todo!() / unwrap()).       *)
(***************************************************************************)
Outcome(st, ps) == [status |-> st, parts |-> ps]

is_active(attrs) == (attrs \div 128) % 2 # 0

\* MBREntryAt with lba_start and sectors_count taken from each other's bytes
MBREntryAt_swapped(buff, k) ==
    LET b == SubSeq(buff, 446 + 16 * k + 1, 446 + 16 * k + 16)
    IN  [attrs |-> b[1], partition_type |-> b[5],
         lba_start |-> FromLE(SubSeq(b, 13, 16)),
         sectors_count |-> FromLE(SubSeq(b, 9, 12))]

MBREntryAt(buff, k) ==
    LET b == SubSeq(buff, 446 + 16 * k + 1, 446 + 16 * k + 16)
    IN  [attrs |-> b[1], partition_type |-> b[5],
         lba_start |-> FromLE(SubSeq(b, 9, 12)),
         sectors_count |-> FromLE(SubSeq(b, 13, 16))]

RECURSIVE MBRParts(_, _)
MBRParts(buff, k) ==
    IF k >= 4 THEN <<>>
    ELSE LET p == MBREntryAt(buff, k)
         IN  (IF p.sectors_count > 0
              THEN <<Part(p.lba_start, p.sectors_count, MBRType(p.partition_type),
                          None, is_active(p.attrs))>>
              ELSE <<>>) \o MBRParts(buff, k + 1)

read_mbr(d, n) ==
    IF ~InDevice(0, 512, n) THEN Outcome("err", <<>>)
    ELSE LET buff == ReadBytes(d, 0, 512)
         IN  IF SubSeq(buff, 511, 512) # MBR_SIGNATURE THEN Outcome("none", <<>>)
             ELSE Outcome("some", MBRParts(buff, 0))

\* the loop over the entries: returns the partitions, or "err" when a read fails
RECURSIVE GPTParts(_, _, _, _, _)
GPTParts(d, n, hdr, entries_off, i) ==
    IF i >= hdr.entries_number THEN Outcome("some", <<>>)
    ELSE LET off == entries_off + i * hdr.entry_size
         IN  IF ~InDevice(off, hdr.entry_size, n) THEN Outcome("err", <<>>)
             ELSE LET entry == GPTEntryFromBytes(ReadBytes(d, off, GPT_ENTRY_SIZE))
                      rest == GPTParts(d, n, hdr, entries_off, i + 1)
                  IN  IF rest.status # "some" THEN rest
                      ELSE IF entry.guid = ZeroGuid THEN rest
                      ELSE Outcome("some",
                               <<Part(entry.start, entry.end - entry.start,
                                      GPTType(entry.partition_type), Some(entry.guid),
                                      FALSE)>> \o rest.parts)

read_gpt(d, n) ==
    IF ~InDevice(512, GPT_SIZE, n) THEN Outcome("err", <<>>)
    ELSE LET buff == ReadBytes(d, 512, GPT_SIZE)
             checksum == SubSeq(buff, 17, 20)
             zeroed == [k \in 1..GPT_SIZE |-> IF k \in 17..20 THEN 0 ELSE buff[k]]
         IN  IF SubSeq(buff, 1, 8) # GPT_SIGNATURE THEN Outcome("none", <<>>)
             ELSE IF compute(zeroed, crc32_table) # checksum THEN Outcome("panic", <<>>)
             ELSE LET hdr == GPTFromBytes(buff)
                      sector_size == 512
                      lba == translate_lba(hdr.entries_start, sector_size)
                  IN  IF lba = None THEN Outcome("panic", <<>>)
                      ELSE GPTParts(d, n, hdr, lba[1] * sector_size, 0)

TableTypeRead(t, d, n) == IF t = "GPT" THEN read_gpt(d, n) ELSE read_mbr(d, n)

\* PartitionTable::read: [status, table_type, partitions]
TableOutcome(st, t, ps) == [status |-> st, table_type |-> t, partitions |-> ps]

PartitionTable_read(d, n) ==
    LET g == TableTypeRead("GPT", d, n)
    IN  IF g.status = "some" THEN TableOutcome("ok", "GPT", g.parts)
        ELSE IF g.status # "none" THEN TableOutcome(g.status, "", <<>>)
        ELSE LET m == TableTypeRead("MBR", d, n)
             IN  IF m.status = "some" THEN TableOutcome("ok", "MBR", m.parts)
                 ELSE IF m.status # "none" THEN TableOutcome(m.status, "", <<>>)
                 ELSE TableOutcome("ok", "MBR", <<>>)

(***************************************************************************)
(* partition.rs: PartitionTableType::write                                 *)
(***************************************************************************)
RECURSIVE MBREntries(_, _)
MBREntries(partitions, k) ==
    IF k > 4 THEN <<>>
    ELSE <<IF k <= Len(partitions)
           THEN [attrs |-> 0,
                 partition_type |-> partitions[k].part_type.id,
                 lba_start |-> partitions[k].start,
                 sectors_count |-> partitions[k].size]
           ELSE MBRPartitionDefault>> \o MBREntries(partitions, k + 1)

\* write_mbr writing the whole sector, the boot code area zeroed
write_mbr_whole_sector(d, partitions) ==
    IF Len(partitions) > 4
       \/ \E k \in 1..Len(partitions) : partitions[k].part_type.kind # "MBR"
    THEN [status |-> "panic", dev |-> d, writes |-> <<>>]
    ELSE LET bytes == Zeros(440) \o MBRTableTail(MBREntries(partitions, 1))
         IN  [status |-> "ok", dev |-> WriteBytes(d, 0, bytes),
              writes |-> <<[off |-> 0, len |-> Len(bytes)]>>]

\* the MBR arm: [status, dev, writes]; nothing is written when it panics
write_mbr(d, partitions) ==
    IF Len(partitions) > 4
       \/ \E k \in 1..Len(partitions) : partitions[k].part_type.kind # "MBR"
    THEN [status |-> "panic", dev |-> d, writes |-> <<>>]
    ELSE LET bytes == MBRTableTail(MBREntries(partitions, 1))
         IN  [status |-> "ok", dev |-> WriteBytes(d, 440, bytes),
              writes |-> <<[off |-> 440, len |-> Len(bytes)]>>]

\* min(u32::MAX, sectors_count - 1): device sizes here stay below 2^31 sectors (the
\* largest integer of the checker), where the minimum is sectors_count - 1
ProtectiveMBR(n) == <<Part(1, Min(2147483647, n - 1), MBRType(238), None, TRUE)>>

\* GPTEntryOf with an inclusive end LBA
GPTEntryOf_inclusive_end(p) ==
    [partition_type |-> p.part_type.guid, guid |-> p.uuid[1],
     start |-> p.start, end |-> p.start + p.size - 1, attributes |-> 0]

GPTEntryOf(p) ==
    [partition_type |-> p.part_type.guid, guid |-> p.uuid[1],
     start |-> p.start, end |-> p.start + p.size, attributes |-> 0]

GPTEntriesOf(partitions) == [k \in 1..Len(partitions) |-> GPTEntryOf(partitions[k])]

RECURSIVE Flatten(_)
Flatten(seqs) == IF seqs = <<>> THEN <<>> ELSE Head(seqs) \o Flatten(Tail(seqs))

EntriesBytes(partitions) ==
    Flatten([k \in 1..Len(partitions) |-> GPTEntryBytes(GPTEntryOf(partitions[k]))])

WithChecksum(h) == [h EXCEPT !.checksum = compute(GPTBytes(h), crc32_table)]

\* the primary header as write() builds it, both checksums computed
PrimaryGPT(partitions, disk_guid) ==
    WithChecksum(
        [signature |-> GPT_SIGNATURE, revision |-> 65536, hdr_size |-> GPT_SIZE,
         checksum |-> <<0, 0, 0, 0>>, reserved |-> 0, hdr_lba |-> 1,
         alternate_hdr_lba |-> -1, first_usable |-> 34, last_usable |-> -34,
         disk_guid |-> disk_guid, entries_start |-> 2,
         entries_number |-> Len(partitions), entry_size |-> 128,
         entries_checksum |-> compute(EntriesBytes(partitions), crc32_table)])

\* AlternateGPT without the reset of the checksum field before it is recomputed
AlternateGPT_stale_checksum(h) ==
    WithChecksum([h EXCEPT !.alternate_hdr_lba = 1, !.entries_start = -33])

\* the alternate header: write() patches the primary one and recomputes its checksum
AlternateGPT(h) ==
    WithChecksum([h EXCEPT !.checksum = <<0, 0, 0, 0>>,
                           !.alternate_hdr_lba = 1,
                           !.entries_start = -33])

(***************************************************************************)
(* Inputs.                                                                 *)
(***************************************************************************)
MaxParts == 2

GUID_EFI == <<40, 115, 42, 193, 31, 248, 210, 17, 186, 75, 0, 160, 201, 62, 201, 59>>

GUID_LINUX == <<175, 61, 198, 15, 131, 132, 114, 71, 142, 121, 61, 105, 216, 71, 125, 228>>

GUID_SEQ == [k \in 1..16 |-> k - 1]

DiskGuids == {GUID_SEQ, GUID_LINUX}

MbrParts ==
    {Part(2048, 204800, MBRType(131), None, TRUE),
     Part(206848, 1024, MBRType(171), None, FALSE),
     Part(4096, 0, MBRType(7), None, FALSE)}

GptParts ==
    {Part(34, 2014, GPTType(GUID_EFI), Some(GUID_SEQ), FALSE),
     Part(2048, 4096, GPTType(GUID_LINUX), Some(GUID_EFI), TRUE),
     Part(8192, 16, GPTType(GUID_LINUX), Some(ZeroGuid), FALSE),
     Part(4096, 8, GPTType(GUID_LINUX), None, FALSE)}

PartUniverse == MbrParts \cup GptParts

SeqsUpTo(S, n) == UNION {[1..k -> S] : k \in 0..n}

\* tables of one partition more than the table type holds: 5 for MBR, 129 for GPT
OversizedTables ==
    {[table_type |-> "MBR", partitions |-> [k \in 1..5 |-> Part(2048, 1024, MBRType(131), None, FALSE)]],
     [table_type |-> "GPT",
      partitions |-> [k \in 1..129 |-> Part(2048, 4096, GPTType(GUID_LINUX), Some(GUID_EFI), FALSE)]]}

Tables ==
    {[table_type |-> t, partitions |-> ps] :
        t \in {"MBR", "GPT"}, ps \in SeqsUpTo(PartUniverse, MaxParts)}
        \cup OversizedTables

\* devices of 20 sectors (too small for the alternate entries), of 33 and 34 sectors (the
\* smallest on which every LBA of a GPT write translates) and of 64 MiB
SectorCounts == {20, 33, 34, 131072}

\* prior device content: a fresh image, a disk with boot code and a stale MBR entry,
\* and a disk whose sector 1 starts with a stale GPT signature
FreshImage == <<>>

UsedImage ==
    WriteBytes(WriteBytes(<<>>, 0, <<235, 99, 144>>), 446,
               MBRPartitionBytes([attrs |-> 128, partition_type |-> 12,
                                  lba_start |-> 63, sectors_count |-> 1000])
               \o Zeros(48) \o MBR_SIGNATURE)

StaleGptImage == WriteBytes(UsedImage, 512, GPT_SIGNATURE)

PriorImages == {FreshImage, UsedImage, StaleGptImage}

ScrambleKinds == {"signature", "header", "entries"}

(***************************************************************************)
(* The partition-table state machine: one write, then damage, then a read. *)
(***************************************************************************)
NoTable == [table_type |-> "", partitions |-> <<>>]

NoResult == TableOutcome("", "", <<>>)

\* the state of Ext2Factory::create before it is called
NoFs ==
    [block_size |-> 0, blocks_per_group |-> 0, inodes_per_group |-> 0, timestamp |-> 0,
     groups_count |-> 0, bgdt_end |-> 0, block_usage_bitmap_size |-> 0,
     inode_usage_bitmap_size |-> 0, metadata_size |-> 0, used_blocks_end |-> 0, end_written |-> 0,
     superblock |-> <<>>, created |-> FALSE, present |-> "unknown",
     present_before |-> "unknown", failed |-> FALSE]

\* no function has been applied on its own
NoCall == [fn |-> ""]

InitCommon ==
    /\ pc = "idle"
    /\ table = NoTable
    /\ gpt = <<>>
    /\ idx = 0
    /\ wlog = <<>>
    /\ scrambled = "none"
    /\ result = NoResult
    /\ path = <<>>
    /\ script = <<>>
    /\ parsed = NoResult
    /\ fs = NoFs

Init ==
    /\ InitCommon
    /\ call = NoCall
    /\ dev \in PriorImages
    /\ sectors_count \in SectorCounts

NonDevUnchanged == UNCHANGED <<sectors_count, path, script, parsed, fs, call>>

\* PartitionTable::write is called with table t
WriteBegin(t) ==
    /\ pc = "idle"
    /\ table' = t
    /\ pc' = IF t.table_type = "MBR" THEN "mbr" ELSE "gpt"
    /\ UNCHANGED <<dev, gpt, idx, wlog, scrambled, result>>
    /\ NonDevUnchanged

\* the MBR arm of write: one write_all of bytes 440..511
WriteMBR ==
    /\ pc = "mbr"
    /\ LET w == write_mbr(dev, table.partitions)
       IN  /\ dev' = w.dev
           /\ wlog' = wlog \o w.writes
           /\ pc' = IF w.status = "ok" THEN "done" ELSE "panic"
    /\ UNCHANGED <<table, gpt, idx, scrambled, result>>
    /\ NonDevUnchanged

\* the GPT arm of write, first step: the protective MBR
WriteProtectiveMBR ==
    /\ pc = "gpt"
    /\ IF Len(table.partitions) > 128
       THEN pc' = "panic" /\ UNCHANGED <<dev, wlog>>
       ELSE LET w == write_mbr(dev, ProtectiveMBR(sectors_count))
            IN  /\ dev' = w.dev
                /\ wlog' = wlog \o w.writes
                /\ pc' = "gpt_build"
    /\ UNCHANGED <<table, gpt, idx, scrambled, result>>
    /\ NonDevUnchanged

\* GUID::random(), the header, the entries and both checksums
BuildGPT(disk_guid) ==
    /\ pc = "gpt_build"
    /\ IF \E k \in 1..Len(table.partitions) :
              \/ table.partitions[k].part_type.kind # "GPT"
              \/ table.partitions[k].uuid = None
       THEN pc' = "panic" /\ UNCHANGED <<gpt, idx>>
       ELSE /\ gpt' = PrimaryGPT(table.partitions, disk_guid)
            /\ idx' = 0
            /\ pc' = "primary"
    /\ UNCHANGED <<dev, table, wlog, scrambled, result>>
    /\ NonDevUnchanged

\* the hdr_off argument of write_gpt: 1 for the primary table, -1 for the alternate
hdr_off_lba == IF pc = "primary" THEN 1 ELSE -1

\* the for loop of write_gpt has gone through every entry
entries_done_early == idx = 0

entries_done == idx = Len(table.partitions)

\* write_gpt, the loop over the entries
WriteGPTEntry ==
    /\ pc \in {"primary", "alternate"}
    /\ ~entries_done
    /\ idx < Len(table.partitions)
    /\ LET ho == translate_lba(hdr_off_lba, sectors_count)
           eo == translate_lba(gpt.entries_start, sectors_count)
       IN  IF ho = None \/ eo = None
           THEN pc' = "panic" /\ UNCHANGED <<dev, wlog, idx>>
           ELSE LET off == eo[1] * SECTOR_SIZE + idx * GPT_ENTRY_SIZE
                    bytes == GPTEntryBytes(GPTEntryOf(table.partitions[idx + 1]))
                IN  /\ dev' = WriteBytes(dev, off, bytes)
                    /\ wlog' = Append(wlog, [off |-> off, len |-> Len(bytes)])
                    /\ idx' = idx + 1
                    /\ pc' = pc
    /\ UNCHANGED <<table, gpt, scrambled, result>>
    /\ NonDevUnchanged

\* write_gpt, the header after the entries; write() then goes on to the alternate table
WriteGPTHeader ==
    /\ pc \in {"primary", "alternate"}
    /\ entries_done
    /\ LET ho == translate_lba(hdr_off_lba, sectors_count)
           eo == translate_lba(gpt.entries_start, sectors_count)
       IN  IF ho = None \/ eo = None
           THEN pc' = "panic" /\ UNCHANGED <<dev, wlog, idx, gpt>>
           ELSE LET off == ho[1] * SECTOR_SIZE
                    bytes == GPTBytes(gpt)
                IN  /\ dev' = WriteBytes(dev, off, bytes)
                    /\ wlog' = Append(wlog, [off |-> off, len |-> Len(bytes)])
                    /\ idx' = 0
                    /\ IF pc = "primary"
                       THEN pc' = "alternate" /\ gpt' = AlternateGPT(gpt)
                       ELSE pc' = "done" /\ gpt' = gpt
    /\ UNCHANGED <<table, scrambled, result>>
    /\ NonDevUnchanged

\* damage to the primary GPT after a completed write: one byte of the signature, of the
\* header body, or of the first primary entry is inverted
ScrambleOffset(kind) ==
    IF kind = "signature" THEN 512
    ELSE IF kind = "header" THEN 512 + 56
    ELSE 1024 + 16

Scramble(kind) ==
    /\ pc = "done"
    /\ table.table_type = "GPT"
    /\ scrambled = "none"
    /\ scrambled' = kind
    /\ LET o == ScrambleOffset(kind)
       IN  dev' = WriteBytes(dev, o, <<255 - ReadBytes(dev, o, 1)[1]>>)
    /\ UNCHANGED <<pc, table, gpt, idx, wlog, result>>
    /\ NonDevUnchanged

\* PartitionTable::read on the device
ReadTable ==
    /\ pc = "done"
    /\ result' = PartitionTable_read(dev, sectors_count)
    /\ pc' = "read"
    /\ UNCHANGED <<dev, table, gpt, idx, wlog, scrambled>>
    /\ NonDevUnchanged

\* PartitionTableType::MBR.read on the device, before or after a write
ReadMBRTable ==
    /\ pc \in {"idle", "done"}
    /\ LET m == TableTypeRead("MBR", dev, sectors_count)
       IN  result' = TableOutcome(m.status, "MBR", m.parts)
    /\ pc' = "read_mbr"
    /\ UNCHANGED <<dev, table, gpt, idx, wlog, scrambled>>
    /\ NonDevUnchanged

Next ==
    \/ \E t \in Tables : WriteBegin(t)
    \/ WriteMBR
    \/ WriteProtectiveMBR
    \/ \E g \in DiskGuids : BuildGPT(g)
    \/ WriteGPTEntry
    \/ WriteGPTHeader
    \/ \E k \in ScrambleKinds : Scramble(k)
    \/ ReadTable
    \/ ReadMBRTable

Spec == Init /\ [][Next]_vars
(***************************************************************************)
(* Text: a string is the sequence of its characters.                       *)
(***************************************************************************)
HexDigits == <<"0", "1", "2", "3", "4", "5", "6", "7", "8", "9", "a", "b", "c", "d", "e", "f">>

UpperHex == <<"0", "1", "2", "3", "4", "5", "6", "7", "8", "9", "A", "B", "C", "D", "E", "F">>

\* char::to_digit(radix): the digit value, or -1
DigitValue(c, radix) ==
    LET hits == {k \in 1..radix : HexDigits[k] = c \/ UpperHex[k] = c}
    IN  IF hits = {} THEN -1 ELSE (CHOOSE k \in hits : TRUE) - 1

\* format!("{}", n) for an unsigned integer
RECURSIVE FmtDec(_)
FmtDec(n) == IF n < 10 THEN <<HexDigits[n + 1]>> ELSE FmtDec(n \div 10) \o <<HexDigits[(n % 10) + 1]>>

\* format!("{:x}", n)
RECURSIVE FmtHex(_)
FmtHex(n) == IF n < 16 THEN <<HexDigits[n + 1]>> ELSE FmtHex(n \div 16) \o <<HexDigits[(n % 16) + 1]>>

\* format!("{:02x}", b) for a byte
FmtHex02(b) == <<HexDigits[(b \div 16) + 1], HexDigits[(b % 16) + 1]>>

RECURSIVE DigitsValue(_, _, _)
DigitsValue(str, radix, acc) ==
    IF str = <<>> THEN acc
    ELSE DigitsValue(Tail(str), radix, acc * radix + DigitValue(Head(str), radix))

\* from_str_radix / str::parse for an unsigned type with maximum max: None on an empty
\* string, a lone sign, a character that is no digit, or a value above max; one leading
\* '+' is accepted.  Strings of more than 9 digits do not occur here.
ParseUnsigned(str, radix, max) ==
    LET body == IF str # <<>> /\ Head(str) = "+" THEN Tail(str) ELSE str
    IN  IF body = <<>> \/ \E k \in 1..Len(body) : DigitValue(body[k], radix) < 0
        THEN None
        ELSE LET v == DigitsValue(body, radix, 0)
             IN  IF v > max THEN None ELSE Some(v)

Whitespace == {" ", "\t", "\r", "\n"}

\* str::trim
Trim(str) ==
    LET keep == {k \in 1..Len(str) : str[k] \notin Whitespace}
    IN  IF keep = {} THEN <<>>
        ELSE SubSeq(str, CHOOSE a \in keep : \A b \in keep : a <= b,
                         CHOOSE a \in keep : \A b \in keep : a >= b)

\* str::split(c): the pieces between the occurrences of c, empty pieces included
Split(str, c) ==
    LET cuts == {0} \cup {k \in 1..Len(str) : str[k] = c} \cup {Len(str) + 1}
        Nth(j) == CHOOSE x \in cuts : Cardinality({y \in cuts : y < x}) = j - 1
    IN  [j \in 1..(Cardinality(cuts) - 1) |-> SubSeq(str, Nth(j) + 1, Nth(j + 1) - 1)]

(***************************************************************************)
(* partition.rs: GUID and PartitionType as text                            *)
(***************************************************************************)
\* impl fmt::Display for GUID
GUID_fmt(g) ==
    FmtHex02(g[4]) \o FmtHex02(g[3]) \o FmtHex02(g[2]) \o FmtHex02(g[1]) \o <<"-">>
        \o FmtHex02(g[6]) \o FmtHex02(g[5]) \o <<"-">>
        \o FmtHex02(g[8]) \o FmtHex02(g[7]) \o <<"-">>
        \o FmtHex02(g[9]) \o FmtHex02(g[10]) \o <<"-">>
        \o FmtHex02(g[11]) \o FmtHex02(g[12]) \o FmtHex02(g[13])
        \o FmtHex02(g[14]) \o FmtHex02(g[15]) \o FmtHex02(g[16])

\* char::is_alphanumeric, on the characters used here
IsAlphanumeric(c) ==
    \/ DigitValue(c, 16) >= 0
    \/ c \in {"g", "p", "s", "t", "u", "v", "x", "z", "G", "Z"}

\* the storage index (from 0) of the i-th byte (from 0) of the text
GUID_index(i) ==
    IF i < 4 THEN 4 - i - 1
    ELSE IF i < 6 THEN 6 - i - 1 + 4
    ELSE IF i < 8 THEN 8 - i - 1 + 6
    ELSE i

\* impl TryFrom<&str> for GUID: [status, guid], status "ok", "err" or "panic"
GUID_try_from(str) ==
    IF Len(str) # 36 THEN [status |-> "err", guid |-> ZeroGuid]
    ELSE IF \E k \in 1..36 : ~IsAlphanumeric(str[k]) /\ str[k] # "-"
    THEN [status |-> "err", guid |-> ZeroGuid]
    ELSE LET hex == SelectSeq(str, LAMBDA c : c # "-")
             n == Len(hex) \div 2
         IN  IF \E k \in 1..(2 * n) : DigitValue(hex[k], 16) < 0
             THEN [status |-> "panic", guid |-> ZeroGuid]      \* from_str_radix(..).unwrap()
             ELSE IF n > 16
             THEN [status |-> "panic", guid |-> ZeroGuid]      \* guid.0[index] out of bounds
             ELSE [status |-> "ok",
                   guid |-> [j \in 1..16 |->
                       LET src == {i \in 0..(n - 1) : GUID_index(i) = j - 1}
                       IN  IF src = {} THEN 0
                           ELSE LET i == CHOOSE i \in src : TRUE
                                IN  16 * DigitValue(hex[2 * i + 1], 16)
                                       + DigitValue(hex[2 * i + 2], 16)]]

\* impl fmt::Display for PartitionType
PartitionType_fmt(t) == IF t.kind = "MBR" THEN FmtHex(t.id) ELSE GUID_fmt(t.guid)

\* impl TryFrom<&str> for PartitionType: [status, part_type]
PartitionType_try_from(str) ==
    LET g == GUID_try_from(str)
    IN  IF g.status = "ok" THEN [status |-> "ok", part_type |-> GPTType(g.guid)]
        ELSE IF g.status = "panic" THEN [status |-> "panic", part_type |-> MBRType(0)]
        ELSE LET b == ParseUnsigned(str, 16, 255)
             IN  IF b = None THEN [status |-> "err", part_type |-> MBRType(0)]
                 ELSE [status |-> "ok", part_type |-> MBRType(b[1])]

(***************************************************************************)
(* partition.rs: the sfdisk script                                         *)
(***************************************************************************)
\* impl fmt::Display for Partition
Partition_fmt(p) ==
    <<"s", "t", "a", "r", "t", "=">> \o FmtDec(p.start)
        \o <<",", " ", "s", "i", "z", "e", "=">> \o FmtDec(p.size)
        \o <<",", " ", "t", "y", "p", "e", "=">> \o PartitionType_fmt(p.part_type)
        \o (IF p.bootable THEN <<",", " ", "b", "o", "o", "t", "a", "b", "l", "e">> ELSE <<>>)
        \o (IF p.uuid # None
            THEN <<",", " ", "u", "u", "i", "d", "=">> \o GUID_fmt(p.uuid[1])
            ELSE <<>>)

\* PartitionTable::serialize
serialize(t, devpath) ==
    <<"d", "e", "v", "i", "c", "e", ":", " ">> \o devpath \o <<"\n">>
        \o <<"u", "n", "i", "t", ":", " ", "s", "e", "c", "t", "o", "r", "s", "\n">>
        \o <<"\n">>
        \o Flatten([k \in 1..Len(t.partitions) |->
                devpath \o FmtDec(k - 1) \o <<" ", ":", " ">>
                    \o Partition_fmt(t.partitions[k]) \o <<"\n">>])

PartitionDefault == Part(0, 0, MBRType(0), None, FALSE)

\* one `key[=value]` token applied to the partition being filled: [status, part]
ApplyAttribute(part, v) ==
    LET split == Split(v, "=")
        name == Trim(split[1])
        value == IF Len(split) >= 2 THEN Some(Trim(split[2])) ELSE None
        Fail == [status |-> "err", part |-> part]
    IN  IF name = <<"s", "t", "a", "r", "t">>
        THEN IF value = None THEN Fail
             ELSE LET n == ParseUnsigned(value[1], 10, 2147483647)
                  IN  IF n = None THEN Fail
                      ELSE [status |-> "ok", part |-> [part EXCEPT !.start = n[1]]]
        ELSE IF name = <<"s", "i", "z", "e">>
        THEN IF value = None THEN Fail
             ELSE LET n == ParseUnsigned(value[1], 10, 2147483647)
                  IN  IF n = None THEN Fail
                      ELSE [status |-> "ok", part |-> [part EXCEPT !.size = n[1]]]
        ELSE IF name = <<"t", "y", "p", "e">>
        THEN IF value = None THEN Fail
             ELSE LET r == PartitionType_try_from(value[1])
                  IN  IF r.status # "ok" THEN [status |-> r.status, part |-> part]
                      ELSE [status |-> "ok", part |-> [part EXCEPT !.part_type = r.part_type]]
        ELSE IF name = <<"u", "u", "i", "d">>
        THEN IF value = None THEN Fail
             ELSE LET r == GUID_try_from(value[1])
                  IN  IF r.status # "ok" THEN [status |-> r.status, part |-> part]
                      ELSE [status |-> "ok", part |-> [part EXCEPT !.uuid = Some(r.guid)]]
        ELSE IF name = <<"b", "o", "o", "t", "a", "b", "l", "e">>
        THEN [status |-> "ok", part |-> [part EXCEPT !.bootable = TRUE]]
        ELSE Fail

\* the loop over values.split(',')
RECURSIVE ApplyAttributes(_, _, _)
ApplyAttributes(part, tokens, k) ==
    IF k > Len(tokens) THEN [status |-> "ok", part |-> part]
    ELSE LET r == ApplyAttribute(part, tokens[k])
         IN  IF r.status # "ok" THEN r ELSE ApplyAttributes(r.part, tokens, k + 1)

\* one partition line: [status, part]
ParseLine(line) ==
    LET split == Split(line, ":")
    IN  IF Len(split) < 2 THEN [status |-> "err", part |-> PartitionDefault]
        ELSE ApplyAttributes(PartitionDefault, Split(split[2], ","), 1)

\* the loop over the lines after the header: [status, partitions]
RECURSIVE ParseLines(_, _)
ParseLines(lines, k) ==
    IF k > Len(lines) THEN [status |-> "ok", partitions |-> <<>>]
    ELSE IF Trim(lines[k]) = <<>> THEN ParseLines(lines, k + 1)
    ELSE LET r == ParseLine(lines[k])
         IN  IF r.status # "ok" THEN [status |-> r.status, partitions |-> <<>>]
             ELSE LET rest == ParseLines(lines, k + 1)
                  IN  IF rest.status # "ok" THEN rest
                      ELSE [status |-> "ok", partitions |-> <<r.part>> \o rest.partitions]

\* PartitionTable::deserialize: [status, table_type, partitions]
deserialize(text) ==
    LET lines == Split(text, "\n")
        blank == {k \in 1..Len(lines) : Trim(lines[k]) = <<>>}
        \* the header ends with the first blank line, which is consumed too
        first == IF blank = {} THEN Len(lines) + 1
                 ELSE (CHOOSE a \in blank : \A b \in blank : a <= b) + 1
        r == ParseLines(lines, first)
    IN  IF r.status # "ok" THEN TableOutcome(r.status, "", <<>>)
        ELSE TableOutcome("ok", "MBR", r.partitions)

(***************************************************************************)
(* The script state machine: serialize a table, then deserialize the text. *)
(***************************************************************************)
DevPaths == {<<"/", "d", "e", "v", "/", "s", "d", "a">>, <<"p", "c", "i", ":", "0">>}

\* the partition of the unit test partitions_serialize1, beside the others
ScriptParts == PartUniverse \cup {Part(0, 1, MBRType(171), Some(GUID_SEQ), FALSE)}

ScriptTables ==
    {[table_type |-> t, partitions |-> ps] :
        t \in {"MBR", "GPT"}, ps \in SeqsUpTo(ScriptParts, MaxParts)}

InitScript ==
    /\ InitCommon
    /\ call = NoCall
    /\ dev = FreshImage
    /\ sectors_count = 0

Serialize(t, devpath) ==
    /\ pc = "idle"
    /\ table' = t
    /\ path' = devpath
    /\ script' = serialize(t, devpath)
    /\ pc' = "serialized"
    /\ UNCHANGED <<dev, sectors_count, gpt, idx, wlog, scrambled, result, parsed, fs, call>>

\* how a key appears on a partition line: not at all, alone, followed by '=' and nothing,
\* or followed by '=' and a value
KeyForms == {"absent", "bare", "empty", "value"}

KeyToken(key, value, form) ==
    IF form = "absent" THEN <<>>
    ELSE IF form = "bare" THEN <<key>>
    ELSE IF form = "empty" THEN <<key \o <<"=">>>>
    ELSE <<key \o <<"=">> \o value>>

RECURSIVE JoinTokens(_)
JoinTokens(tokens) ==
    IF tokens = <<>> THEN <<>>
    ELSE IF Len(tokens) = 1 THEN tokens[1]
    ELSE tokens[1] \o <<",", " ">> \o JoinTokens(Tail(tokens))

\* a script written by hand: the header, `before` well-formed partition lines, and one
\* line on which start, size and type appear in the given forms
HandScript(before, start, size, type) ==
    serialize([table_type |-> "MBR",
               partitions |-> [k \in 1..before |-> Part(2048, 16, MBRType(131), None, FALSE)]],
              <<"/", "d", "e", "v", "/", "s", "d", "a">>)
        \o <<"/", "d", "e", "v", "/", "s", "d", "a", "9", " ", ":", " ">>
        \o JoinTokens(KeyToken(<<"s", "t", "a", "r", "t">>, <<"4", "0", "9", "6">>, start)
                         \o KeyToken(<<"s", "i", "z", "e">>, <<"3", "2">>, size)
                         \o KeyToken(<<"t", "y", "p", "e">>, <<"8", "3">>, type))
        \o <<"\n">>

\* a script that does not come from serialize is handed to deserialize
GivenScript(before, start, size, type) ==
    /\ pc = "idle"
    /\ script' = HandScript(before, start, size, type)
    /\ call' = [fn |-> "deserialize", before |-> before, start |-> start, size |-> size,
                type |-> type]
    /\ pc' = "given"
    /\ UNCHANGED <<dev, sectors_count, table, gpt, idx, wlog, scrambled, result, path,
                   parsed, fs>>

Deserialize ==
    /\ pc \in {"serialized", "given"}
    /\ parsed' = deserialize(script)
    /\ pc' = IF pc = "serialized" THEN "parsed" ELSE "parsed_given"
    /\ UNCHANGED <<dev, sectors_count, table, gpt, idx, wlog, scrambled, result, path,
                   script, fs, call>>

NextScript ==
    \/ \E t \in ScriptTables, devpath \in DevPaths : Serialize(t, devpath)
    \/ \E before \in 0..1, start \in KeyForms, size \in KeyForms, type \in KeyForms :
          GivenScript(before, start, size, type)
    \/ Deserialize

SpecScript == InitScript /\ [][NextScript]_vars

(***************************************************************************)
(* ext2.rs: on-disk layouts (#[repr(C, packed)])                           *)
(***************************************************************************)
SUPERBLOCK_OFFSET == 1024

EXT2_SIGNATURE == 61267     \* 0xef53

DEFAULT_BLOCK_SIZE == 4096

DEFAULT_INODES_PER_GROUP == 1024

DEFAULT_BLOCKS_PER_GROUP == 1024

DEFAULT_FSCK_MOUNT_COUNT == 1024

DEFAULT_FSCK_INTERVAL == 2678400

FS_STATE_CLEAN == 1

ERR_ACTION_READ_ONLY == 2

ROOT_INODE == 2

SUPERBLOCK_SIZE == 1024

BGD_SIZE == 32

DIRENT_SIZE == 8

INODE_SIZE == 128

SuperblockBytes(sb) ==
    LE(sb.s_inodes_count, 4) \o LE(sb.s_blocks_count, 4) \o LE(sb.s_r_blocks_count, 4)
        \o LE(sb.s_free_blocks_count, 4) \o LE(sb.s_free_inodes_count, 4)
        \o LE(sb.s_first_data_block, 4) \o LE(sb.s_log_block_size, 4)
        \o LE(sb.s_frag_log_size, 4) \o LE(sb.s_blocks_per_group, 4)
        \o LE(sb.s_frags_per_group, 4) \o LE(sb.s_inodes_per_group, 4)
        \o LE(sb.s_mtime, 4) \o LE(sb.s_wtime, 4)
        \o LE(sb.s_mnt_count, 2) \o LE(sb.s_max_mnt_count, 2) \o LE(sb.s_magic, 2)
        \o LE(sb.s_state, 2) \o LE(sb.s_errors, 2) \o LE(sb.s_minor_rev_level, 2)
        \o LE(sb.s_lastcheck, 4) \o LE(sb.s_checkinterval, 4) \o LE(sb.s_creator_os, 4)
        \o LE(sb.s_rev_level, 4) \o LE(sb.s_def_resuid, 2) \o LE(sb.s_def_resgid, 2)
        \o LE(sb.s_first_ino, 4) \o LE(sb.s_inode_size, 2) \o LE(sb.s_block_group_nr, 2)
        \o Zeros(12) \o sb.s_uuid \o sb.s_volume_name \o Zeros(64)
        \o Zeros(4) \o Zeros(4) \o Zeros(16) \o Zeros(12) \o Zeros(788)

\* the fields of a superblock that the code reads back from a buffer
SuperblockFromBytes(b) ==
    [s_inodes_count |-> FromLE(SubSeq(b, 1, 4)),
     s_blocks_count |-> FromLE(SubSeq(b, 5, 8)),
     s_free_blocks_count |-> FromLE(SubSeq(b, 13, 16)),
     s_free_inodes_count |-> FromLE(SubSeq(b, 17, 20)),
     s_log_block_size |-> FromLE(SubSeq(b, 25, 28)),
     s_blocks_per_group |-> FromLE(SubSeq(b, 33, 36)),
     s_inodes_per_group |-> FromLE(SubSeq(b, 41, 44)),
     s_magic |-> FromLE(SubSeq(b, 57, 58)),
     s_rev_level |-> FromLE(SubSeq(b, 77, 80)),
     s_first_ino |-> FromLE(SubSeq(b, 85, 88)),
     s_inode_size |-> FromLE(SubSeq(b, 89, 90))]

Superblock_s_state(b) == FromLE(SubSeq(b, 59, 60))

\* the s_magic field of a superblock read into a buffer
Superblock_s_magic(b) == FromLE(SubSeq(b, 57, 58))

BGDBytes(bgd) ==
    LE(bgd.bg_block_bitmap, 4) \o LE(bgd.bg_inode_bitmap, 4) \o LE(bgd.bg_inode_table, 4)
        \o LE(bgd.bg_free_blocks_count, 2) \o LE(bgd.bg_free_inodes_count, 2)
        \o LE(bgd.bg_used_dirs_count, 2) \o Zeros(14)

BGDFromBytes(b) ==
    [bg_block_bitmap |-> FromLE(SubSeq(b, 1, 4)),
     bg_inode_bitmap |-> FromLE(SubSeq(b, 5, 8)),
     bg_inode_table |-> FromLE(SubSeq(b, 9, 12)),
     bg_free_blocks_count |-> FromLE(SubSeq(b, 13, 14)),
     bg_free_inodes_count |-> FromLE(SubSeq(b, 15, 16)),
     bg_used_dirs_count |-> FromLE(SubSeq(b, 17, 18))]

INodeBytes(ino) ==
    LE(ino.i_mode, 2) \o LE(ino.i_uid, 2) \o LE(ino.i_size, 4) \o LE(ino.i_atime, 4)
        \o LE(ino.i_ctime, 4) \o LE(ino.i_mtime, 4) \o LE(ino.i_dtime, 4)
        \o LE(ino.i_gid, 2) \o LE(ino.i_links_count, 2) \o LE(ino.i_blocks, 4)
        \o LE(ino.i_flags, 4) \o LE(ino.i_osd1, 4)
        \o LE(ino.i_block0, 4) \o Zeros(56)
        \o LE(ino.i_generation, 4) \o LE(ino.i_file_acl, 4) \o LE(ino.i_dir_acl, 4)
        \o LE(ino.i_faddr, 4) \o Zeros(12)

DirectoryEntryBytes(e) ==
    LE(e.inode, 4) \o LE(e.rec_len, 2) \o <<e.name_len, e.file_type>>

DirectoryEntryFromBytes(b) ==
    [inode |-> FromLE(SubSeq(b, 1, 4)), rec_len |-> FromLE(SubSeq(b, 5, 6)),
     name_len |-> b[7], file_type |-> b[8]]

(***************************************************************************)
(* util.rs and ext2.rs: helpers                                            *)
(***************************************************************************)
RECURSIVE log2(_)
log2(n) == IF n <= 1 THEN 0 ELSE 1 + log2(n \div 2)

RECURSIVE pow2(_)
pow2(n) == IF n = 0 THEN 1 ELSE 2 * pow2(n - 1)

div_ceil(a, b) == (a + b - 1) \div b

saturating_sub(a, b) == IF a >= b THEN a - b ELSE 0

get_block_size(sb) == pow2(sb.s_log_block_size + 10)

get_inode_size(sb) == IF sb.s_rev_level >= 1 THEN sb.s_inode_size ELSE 128

\* a regular file grows when it is written past its end: n sectors at first,
\* then up to the highest offset written so far
DevSize(n, end_written) == Max(n * SECTOR_SIZE, end_written)

\* the bytes fill_bitmap writes: `end` low bits set, the rest of the `size` bytes clear
fill_bitmap_bytes(size, end) ==
    [k \in 1..size |->
        IF k - 1 < end \div 8 THEN 255
        ELSE IF k - 1 = end \div 8 /\ end % 8 # 0 THEN pow2(end % 8) - 1
        ELSE 0]

fill_bitmap(off, size, end, d) == WriteBytes(d, off, fill_bitmap_bytes(size, end))

BGD_get_disk_offset(i, sb) ==
    LET bgdt_off == (SUPERBLOCK_OFFSET \div get_block_size(sb)) + 1
    IN  bgdt_off * get_block_size(sb) + i * BGD_SIZE

\* INode::get_disk_offset: None when reading the block group descriptor fails
INode_get_disk_offset(i, sb, d, size) ==
    LET blk_size == get_block_size(sb)
        inode_size == get_inode_size(sb)
        blk_grp == (i - 1) \div sb.s_inodes_per_group
        inode_grp_off == (i - 1) % sb.s_inodes_per_group
        inode_table_blk_off == (inode_grp_off * inode_size) \div blk_size
        inode_blk_off == ((i - 1) * inode_size) % blk_size
        bgd_off == BGD_get_disk_offset(blk_grp, sb)
    IN  IF bgd_off + BGD_SIZE > size THEN None
        ELSE LET bgd == BGDFromBytes(ReadBytes(d, bgd_off, BGD_SIZE))
             IN  Some((bgd.bg_inode_table + inode_table_blk_off) * blk_size + inode_blk_off)

\* Ext2Factory::is_present: "true", "false", or "err" when read_exact fails
is_present(d, size) ==
    IF SUPERBLOCK_OFFSET + SUPERBLOCK_SIZE > size THEN "err"
    ELSE IF Superblock_s_magic(ReadBytes(d, SUPERBLOCK_OFFSET, SUPERBLOCK_SIZE))
                = EXT2_SIGNATURE
         THEN "true" ELSE "false"

(***************************************************************************)
(* ext2.rs: Ext2Factory::create, one action per step of the function       *)
(***************************************************************************)
MaxGroups == 4

MaxUnits == 8

\* device lengths in sectors: every multiple of 6 KiB up to the bound, and one
\* device that holds two default-sized groups and the start of a third one
Ext2SectorCounts == {12 * k : k \in 0..MaxUnits} \cup {16384 + 24}

BlockSizes == {None, Some(1024), Some(2048)}

GroupSizes == {None, Some(8), Some(16)}

Labels == {None}

Timestamps == {1700000000}

unwrap_or(opt, default) == IF opt = None THEN default ELSE opt[1]

\* a device that was used before: an ext2 signature and runs of ones in the
\* area the new metadata goes to
DirtyImage(n) ==
    [a \in 1024..(Min(n * SECTOR_SIZE, 8192) - 1) |->
        IF a = 1080 THEN 83 ELSE IF a = 1081 THEN 239
        ELSE IF a % 16 < 8 THEN 255 ELSE 0]

Ext2Images(n) == {FreshImage, DirtyImage(n)}

InitExt2 ==
    /\ InitCommon
    /\ call = NoCall
    /\ sectors_count \in Ext2SectorCounts
    /\ dev \in Ext2Images(sectors_count)

VolumeName(label) ==
    IF label = None THEN Zeros(16)
    ELSE LET l == label[1]
             len == Min(Len(l), 16)
         IN  SubSeq(l, 1, len) \o Zeros(16 - len)

\* the write sequence of create, lines 508-626: the block groups and the entries of the
\* root directory, the root inode, the superblock (create_steps_superblock_first would
\* write the superblock before the rest)
create_steps_superblock_first == <<"superblock", "groups", "root_inode">>

create_steps == <<"groups", "root_inode", "superblock">>

\* the step that follows `step`, or "created" when create returns Ok
StepAfter(step) ==
    LET k == CHOOSE j \in 1..Len(create_steps) : create_steps[j] = step
    IN  IF k < Len(create_steps) THEN create_steps[k + 1] ELSE "created"

\* lines 407-506: the configuration, the superblock and the layout
CreateBegin(cfg_block_size, cfg_blocks_per_group, cfg_inodes_per_group, cfg_label, filesystem_id, create_timestamp) ==
    LET len == sectors_count * SECTOR_SIZE
        block_size == unwrap_or(cfg_block_size, DEFAULT_BLOCK_SIZE)
        block_size_log == log2(block_size)
        blocks_per_group == unwrap_or(cfg_blocks_per_group, DEFAULT_BLOCKS_PER_GROUP)
        inodes_per_group == unwrap_or(cfg_inodes_per_group, DEFAULT_INODES_PER_GROUP)
        total_blocks == len \div block_size
        groups_count == total_blocks \div blocks_per_group
        total_inodes == inodes_per_group * groups_count
        superblock_group == (SUPERBLOCK_OFFSET \div block_size) \div blocks_per_group
        superblock ==
            [s_inodes_count |-> total_inodes, s_blocks_count |-> total_blocks,
             s_r_blocks_count |-> 0, s_free_blocks_count |-> 0, s_free_inodes_count |-> 0,
             s_first_data_block |-> SUPERBLOCK_OFFSET \div block_size,
             s_log_block_size |-> block_size_log - 10,
             s_frag_log_size |-> block_size_log - 10,
             s_blocks_per_group |-> blocks_per_group,
             s_frags_per_group |-> blocks_per_group,
             s_inodes_per_group |-> inodes_per_group,
             s_mtime |-> 0, s_wtime |-> create_timestamp, s_mnt_count |-> 0,
             s_max_mnt_count |-> DEFAULT_FSCK_MOUNT_COUNT, s_magic |-> EXT2_SIGNATURE,
             s_state |-> FS_STATE_CLEAN, s_errors |-> ERR_ACTION_READ_ONLY,
             s_minor_rev_level |-> 1, s_lastcheck |-> create_timestamp,
             s_checkinterval |-> DEFAULT_FSCK_INTERVAL, s_creator_os |-> 0,
             s_rev_level |-> 1, s_def_resuid |-> 0, s_def_resgid |-> 0,
             s_first_ino |-> 11, s_inode_size |-> 128,
             s_block_group_nr |-> superblock_group % 65536,
             s_uuid |-> filesystem_id, s_volume_name |-> VolumeName(cfg_label)]
        bgdt_off == (SUPERBLOCK_OFFSET \div block_size) + 1
        bgdt_size == div_ceil(groups_count * BGD_SIZE, block_size)
        bgdt_end == bgdt_off + bgdt_size
        block_usage_bitmap_size == div_ceil(blocks_per_group, block_size * 8)
        inode_usage_bitmap_size == div_ceil(inodes_per_group, block_size * 8)
        inodes_table_size == div_ceil(inodes_per_group * superblock.s_inode_size, block_size)
        metadata_size == block_usage_bitmap_size + inode_usage_bitmap_size + inodes_table_size
        used_blocks_end == bgdt_end + groups_count * metadata_size + 1
    IN  /\ pc = "idle"
        /\ groups_count <= MaxGroups
        /\ fs' = [block_size |-> block_size, blocks_per_group |-> blocks_per_group,
                  inodes_per_group |-> inodes_per_group, timestamp |-> create_timestamp,
                  groups_count |-> groups_count, bgdt_end |-> bgdt_end,
                  block_usage_bitmap_size |-> block_usage_bitmap_size,
                  inode_usage_bitmap_size |-> inode_usage_bitmap_size,
                  metadata_size |-> metadata_size, used_blocks_end |-> used_blocks_end,
                  end_written |-> 0,
                  superblock |-> superblock, created |-> FALSE, present |-> "unknown",
                  \* what is_present would have answered when create was called
                  present_before |-> is_present(dev, len), failed |-> FALSE]
        /\ idx' = 0
        /\ pc' = create_steps[1]
        /\ UNCHANGED <<dev, sectors_count, table, gpt, wlog, scrambled, result, path,
                       script, parsed, call>>

\* lines 509-562: one iteration of the block group loop
CreateGroup ==
    LET i == idx
        bg_block_bitmap == fs.bgdt_end + i * fs.metadata_size
        bg_inode_bitmap == bg_block_bitmap + fs.block_usage_bitmap_size
        bg_inode_table == bg_inode_bitmap + fs.inode_usage_bitmap_size
        begin_block == i * fs.blocks_per_group
        used_blocks_count ==
            Min(fs.blocks_per_group, saturating_sub(fs.used_blocks_end, begin_block))
        begin_inode == i * fs.inodes_per_group
        used_inodes_count ==
            Min(fs.inodes_per_group, saturating_sub(fs.superblock.s_first_ino, begin_inode))
        bgd == [bg_block_bitmap |-> bg_block_bitmap, bg_inode_bitmap |-> bg_inode_bitmap,
                bg_inode_table |-> bg_inode_table,
                bg_free_blocks_count |->
                    (fs.blocks_per_group % 65536) - (used_blocks_count % 65536),
                bg_free_inodes_count |->
                    (fs.inodes_per_group % 65536) - (used_inodes_count % 65536),
                bg_used_dirs_count |->
                    IF begin_inode <= ROOT_INODE /\ ROOT_INODE < begin_inode + fs.inodes_per_group
                    THEN 1 ELSE 0]
        superblock ==
            [fs.superblock EXCEPT
                !.s_free_blocks_count = @ + bgd.bg_free_blocks_count,
                !.s_free_inodes_count = @ + bgd.bg_free_inodes_count]
        d1 == fill_bitmap(bg_block_bitmap * fs.block_size,
                          fs.block_usage_bitmap_size * fs.block_size, used_blocks_count, dev)
        d2 == fill_bitmap(bg_inode_bitmap * fs.block_size,
                          fs.inode_usage_bitmap_size * fs.block_size, used_inodes_count, d1)
    IN  /\ pc = "groups"
        /\ idx < fs.groups_count
        /\ dev' = WriteBytes(d2, BGD_get_disk_offset(i, superblock), BGDBytes(bgd))
        /\ fs' = [fs EXCEPT !.superblock = superblock,
                             !.end_written =
                                Max(@, Max((bg_inode_bitmap + fs.inode_usage_bitmap_size)
                                                * fs.block_size,
                                           BGD_get_disk_offset(i, superblock) + BGD_SIZE))]
        /\ idx' = idx + 1
        /\ UNCHANGED <<sectors_count, pc, table, gpt, wlog, scrambled, result, path,
                       script, parsed, call>>

self_entry_packed ==
    [inode |-> ROOT_INODE, rec_len |-> DIRENT_SIZE + 4, name_len |-> 1, file_type |-> 0]

self_entry ==
    [inode |-> ROOT_INODE, rec_len |-> DIRENT_SIZE + 8, name_len |-> 1, file_type |-> 0]

parent_entry(block_size) ==
    [inode |-> ROOT_INODE, rec_len |-> (block_size - (DIRENT_SIZE + 8)) % 65536,
     name_len |-> 2, file_type |-> 0]

\* lines 564-615: the `.` and `..` entries of the root directory
CreateRootEntries ==
    LET entries_block == fs.used_blocks_end - 1
        entries_block_off == entries_block * fs.block_size
        d1 == WriteBytes(dev, entries_block_off, DirectoryEntryBytes(self_entry) \o <<46>>)
    IN  /\ pc = "groups"
        /\ idx = fs.groups_count
        /\ IF fs.block_size >= (DIRENT_SIZE + 8) * 2
           THEN /\ dev' = WriteBytes(d1, entries_block_off + 16,
                                     DirectoryEntryBytes(parent_entry(fs.block_size))
                                        \o <<46, 46>>)
                /\ fs' = [fs EXCEPT !.end_written = Max(@, entries_block_off + 16 + 10)]
                /\ pc' = StepAfter("groups")
           ELSE /\ dev' = dev
                /\ fs' = fs
                /\ pc' = "panic"
        /\ UNCHANGED <<sectors_count, table, gpt, idx, wlog, scrambled, result, path,
                       script, parsed, call>>

root_dir(block_size, create_timestamp, entries_block) ==
    [i_mode |-> 16877, i_uid |-> 0, i_size |-> block_size,
     i_atime |-> create_timestamp, i_ctime |-> create_timestamp,
     i_mtime |-> create_timestamp, i_dtime |-> 0, i_gid |-> 0, i_links_count |-> 2,
     i_blocks |-> block_size \div 512, i_flags |-> 0, i_osd1 |-> 0,
     i_block0 |-> entries_block, i_generation |-> 0, i_file_acl |-> 0, i_dir_acl |-> 0,
     i_faddr |-> 0]

\* lines 617-620: the root inode, at the offset its group's descriptor gives
CreateRootInode ==
    LET root_inode_off ==
            INode_get_disk_offset(ROOT_INODE, fs.superblock, dev,
                                  DevSize(sectors_count, fs.end_written))
    IN  /\ pc = "root_inode"
        /\ IF root_inode_off = None
           THEN /\ dev' = dev
                /\ fs' = [fs EXCEPT !.failed = TRUE]
                /\ pc' = "failed"
           ELSE /\ dev' = WriteBytes(dev, root_inode_off[1],
                                     INodeBytes(root_dir(fs.block_size, fs.timestamp,
                                                         fs.used_blocks_end - 1)))
                /\ fs' = [fs EXCEPT !.end_written = Max(@, root_inode_off[1] + INODE_SIZE)]
                /\ pc' = StepAfter("root_inode")
        /\ UNCHANGED <<sectors_count, table, gpt, idx, wlog, scrambled, result, path,
                       script, parsed, call>>

\* lines 622-626: the superblock is written last
CreateSuperblock ==
    /\ pc = "superblock"
    /\ dev' = WriteBytes(dev, SUPERBLOCK_OFFSET, SuperblockBytes(fs.superblock))
    /\ fs' = [fs EXCEPT !.created = TRUE,
                         !.end_written = Max(@, SUPERBLOCK_OFFSET + SUPERBLOCK_SIZE)]
    /\ pc' = StepAfter("superblock")
    /\ UNCHANGED <<sectors_count, table, gpt, idx, wlog, scrambled, result, path,
                   script, parsed, call>>

\* the device writes of one iteration of the block group loop, in order: the block
\* bitmap, the inode bitmap, the descriptor
GroupWrites ==
    LET i == idx
        bg_block_bitmap == fs.bgdt_end + i * fs.metadata_size
        bg_inode_bitmap == bg_block_bitmap + fs.block_usage_bitmap_size
        bg_inode_table == bg_inode_bitmap + fs.inode_usage_bitmap_size
        used_blocks_count ==
            Min(fs.blocks_per_group, saturating_sub(fs.used_blocks_end, i * fs.blocks_per_group))
        used_inodes_count ==
            Min(fs.inodes_per_group,
                saturating_sub(fs.superblock.s_first_ino, i * fs.inodes_per_group))
        bgd == [bg_block_bitmap |-> bg_block_bitmap, bg_inode_bitmap |-> bg_inode_bitmap,
                bg_inode_table |-> bg_inode_table,
                bg_free_blocks_count |->
                    (fs.blocks_per_group % 65536) - (used_blocks_count % 65536),
                bg_free_inodes_count |->
                    (fs.inodes_per_group % 65536) - (used_inodes_count % 65536),
                bg_used_dirs_count |->
                    IF i * fs.inodes_per_group <= ROOT_INODE
                       /\ ROOT_INODE < (i + 1) * fs.inodes_per_group
                    THEN 1 ELSE 0]
    IN  <<[off |-> bg_block_bitmap * fs.block_size,
           bytes |-> fill_bitmap_bytes(fs.block_usage_bitmap_size * fs.block_size,
                                       used_blocks_count)],
          [off |-> bg_inode_bitmap * fs.block_size,
           bytes |-> fill_bitmap_bytes(fs.inode_usage_bitmap_size * fs.block_size,
                                       used_inodes_count)],
          [off |-> BGD_get_disk_offset(i, fs.superblock), bytes |-> BGDBytes(bgd)]>>

\* the four write_all of the root directory entries: `.`, its name, `..`, its name
RootEntriesWrites ==
    LET entries_block_off == (fs.used_blocks_end - 1) * fs.block_size
    IN  <<[off |-> entries_block_off, bytes |-> DirectoryEntryBytes(self_entry)],
          [off |-> entries_block_off + DIRENT_SIZE, bytes |-> <<46>>],
          [off |-> entries_block_off + 16,
           bytes |-> DirectoryEntryBytes(parent_entry(fs.block_size))],
          [off |-> entries_block_off + 16 + DIRENT_SIZE, bytes |-> <<46, 46>>]>>

RootInodeWrites ==
    LET root_inode_off ==
            INode_get_disk_offset(ROOT_INODE, fs.superblock, dev,
                                  DevSize(sectors_count, fs.end_written))
    IN  IF root_inode_off = None THEN <<>>
        ELSE <<[off |-> root_inode_off[1],
                bytes |-> INodeBytes(root_dir(fs.block_size, fs.timestamp,
                                              fs.used_blocks_end - 1))]>>

\* the device writes of the step create is about to take
StepWrites ==
    IF pc = "groups" THEN IF idx < fs.groups_count THEN GroupWrites ELSE RootEntriesWrites
    ELSE IF pc = "root_inode" THEN RootInodeWrites
    ELSE <<>>

RECURSIVE ApplyWrites(_, _)
ApplyWrites(d, ws) ==
    IF ws = <<>> THEN d ELSE ApplyWrites(WriteBytes(d, Head(ws).off, Head(ws).bytes), Tail(ws))

RECURSIVE EndOfWrites(_)
EndOfWrites(ws) ==
    IF ws = <<>> THEN 0 ELSE Max(Head(ws).off + Len(Head(ws).bytes), EndOfWrites(Tail(ws)))

\* how much of its buffer a write_all that fails has written
FailedParts == {"none", "half"}

\* an I/O error at the k-th device write of the step in progress, before the superblock is
\* written: the writes before it are done, the failing one leaves nothing or the first
\* half of its bytes, and create returns the error (the write of the `..` entry is
\* unwrapped: it panics)
CreateIoError(k, part) ==
    /\ pc \in {"groups", "root_inode"}
    /\ LET step == StepWrites
           failing == IF k \in 1..Len(step) THEN step[k] ELSE [off |-> 0, bytes |-> <<>>]
           ws == SubSeq(step, 1, k - 1)
                 \o <<[off |-> failing.off,
                        bytes |-> IF part = "half"
                                  THEN SubSeq(failing.bytes, 1, Len(failing.bytes) \div 2)
                                  ELSE <<>>]>>
       IN  /\ k \in 1..Len(step)
           /\ dev' = ApplyWrites(dev, ws)
           /\ fs' = [fs EXCEPT !.failed = TRUE, !.end_written = Max(@, EndOfWrites(ws))]
    /\ pc' = IF pc = "groups" /\ idx = fs.groups_count /\ k = 3 THEN "panic" ELSE "failed"
    /\ UNCHANGED <<sectors_count, table, gpt, idx, wlog, scrambled, result, path,
                   script, parsed, call>>

\* Ext2Factory::is_present, called on a device at rest
IsPresent ==
    /\ pc \in {"idle", "created", "failed", "panic"}
    /\ fs' = [fs EXCEPT !.present = is_present(dev, DevSize(sectors_count, fs.end_written))]
    /\ pc' = "checked"
    /\ UNCHANGED <<dev, sectors_count, table, gpt, idx, wlog, scrambled, result, path,
                   script, parsed, call>>

NextExt2 ==
    \/ \E bs \in BlockSizes, bpg \in GroupSizes, ipg \in GroupSizes, l \in Labels,
          ts \in Timestamps :
            CreateBegin(bs, bpg, ipg, l, GUID_SEQ, ts)
    \/ CreateGroup
    \/ CreateRootEntries
    \/ CreateRootInode
    \/ CreateSuperblock
    \/ \E k \in 1..4, part \in FailedParts : CreateIoError(k, part)
    \/ IsPresent

SpecExt2 == InitExt2 /\ [][NextExt2]_vars

(***************************************************************************)
(* Claims about the partition-table codec.                                 *)
(***************************************************************************)
\* the table the last write was given satisfies the GPT preconditions on this device
ValidGptTable ==
    /\ table.table_type = "GPT"
    /\ Len(table.partitions) <= 128
    /\ \A k \in 1..Len(table.partitions) :
          LET p == table.partitions[k]
          IN  /\ p.part_type.kind = "GPT"
              /\ p.uuid # None /\ p.uuid # Some(ZeroGuid)
              /\ p.start >= 34
              /\ p.start + p.size - 1 <= sectors_count - 34

ValidMbrTable ==
    /\ table.table_type = "MBR"
    /\ Len(table.partitions) <= 4
    /\ \A k \in 1..Len(table.partitions) :
          LET p == table.partitions[k]
          IN  p.part_type.kind = "MBR" /\ p.size > 0

ReadBackGpt ==
    /\ result.status = "ok"
    /\ result.table_type = "GPT"
    /\ Len(result.partitions) = Len(table.partitions)
    /\ \A k \in 1..Len(table.partitions) :
          LET p == table.partitions[k]
              q == result.partitions[k]
          IN  /\ q.start = p.start
              /\ q.size = p.size
              /\ q.part_type = GPTType(p.part_type.guid)
              /\ q.uuid = p.uuid

\* C1: a valid GPT table written to the device and read back from it comes back as a
\* GPT table holding the written partitions in order, with equal start, size, type
\* GUID and UUID.
C1_GptRoundTrip ==
    (pc = "read" /\ scrambled = "none" /\ ValidGptTable) => ReadBackGpt

C1_Witness ==
    /\ pc = "read" /\ scrambled = "none" /\ ValidGptTable
    /\ Len(table.partitions) = 2
    /\ table.partitions[1] # table.partitions[2]
    /\ ReadBackGpt

\* C2: a valid MBR table written to a device holding no GPT header and read back comes
\* back with the written partitions in order, equal in bootable flag, type byte, start
\* and size; a partition written as bootable is stored with attrs = 0x80.
C2_MbrRoundTrip ==
    (pc = "read" /\ ValidMbrTable /\ ReadBytes(dev, 512, 8) # GPT_SIGNATURE) =>
        /\ result.status = "ok"
        /\ result.table_type = "MBR"
        /\ Len(result.partitions) = Len(table.partitions)
        /\ \A k \in 1..Len(table.partitions) :
              LET p == table.partitions[k]
                  q == result.partitions[k]
              IN  /\ q.bootable = p.bootable
                  /\ q.part_type = p.part_type
                  /\ q.start = p.start
                  /\ q.size = p.size
                  /\ p.bootable => ReadBytes(dev, 446 + 16 * (k - 1), 1)[1] = 128

\* the header stored at byte offset off, and what its checksums cover
HeaderAt(off) == ReadBytes(dev, off, GPT_SIZE)

HeaderChecksumValid(b) ==
    compute([k \in 1..GPT_SIZE |-> IF k \in 17..20 THEN 0 ELSE b[k]], crc32_table)
        = SubSeq(b, 17, 20)

EntriesChecksumValid(b) ==
    LET h == GPTFromBytes(b)
        lba == translate_lba(h.entries_start, sectors_count)
    IN  /\ lba # None
        /\ compute(ReadBytes(dev, lba[1] * SECTOR_SIZE, h.entries_number * h.entry_size),
                   crc32_table) = h.entries_checksum

GptWritten == pc \in {"done", "read"} /\ scrambled = "none" /\ table.table_type = "GPT"

\* C8: after a GPT write, the primary and the alternate header each store the CRC32 of
\* their own bytes (checksum field zeroed) and the CRC32 of the entries array they point
\* to, and both carry the same entries checksum and disk GUID.
C8_GptChecksums ==
    GptWritten =>
        LET p == HeaderAt(SECTOR_SIZE)
            a == HeaderAt((sectors_count - 1) * SECTOR_SIZE)
        IN  /\ HeaderChecksumValid(p) /\ HeaderChecksumValid(a)
            /\ EntriesChecksumValid(p) /\ EntriesChecksumValid(a)
            /\ SubSeq(p, 89, 92) = SubSeq(a, 89, 92)
            /\ SubSeq(p, 57, 72) = SubSeq(a, 57, 72)

C8_Witness ==
    /\ GptWritten /\ pc = "done"
    /\ Len(table.partitions) = 2
    /\ GPTFromBytes(HeaderAt((sectors_count - 1) * SECTOR_SIZE)).entries_start = -33
    /\ HeaderChecksumValid(HeaderAt((sectors_count - 1) * SECTOR_SIZE))

\* the device writes of one GPT write of n entries on a device of sc sectors
ExpectedGptWrites(sc, n) ==
    <<[off |-> 440, len |-> 72]>>
        \o [k \in 1..n |-> [off |-> 2 * SECTOR_SIZE + (k - 1) * GPT_ENTRY_SIZE,
                            len |-> GPT_ENTRY_SIZE]]
        \o <<[off |-> SECTOR_SIZE, len |-> GPT_SIZE]>>
        \o [k \in 1..n |-> [off |-> (sc - 33) * SECTOR_SIZE + (k - 1) * GPT_ENTRY_SIZE,
                            len |-> GPT_ENTRY_SIZE]]
        \o <<[off |-> (sc - 1) * SECTOR_SIZE, len |-> GPT_SIZE]>>

IsPrefix(a, b) == Len(a) <= Len(b) /\ SubSeq(b, 1, Len(a)) = a

\* C9: the device writes of a GPT write come in this order: the protective MBR, the
\* primary entries from LBA 2, the primary header at LBA 1, the alternate entries from
\* LBA N-33, the alternate header at LBA N-1; at every point of the write the writes
\* done so far are a prefix of that list, so no header precedes an entry of its array.
C9_GptWriteOrder ==
    (table.table_type = "GPT" /\ pc # "panic") =>
        LET want == ExpectedGptWrites(sectors_count, Len(table.partitions))
        IN  /\ IsPrefix(wlog, want)
            /\ pc \in {"done", "read"} => wlog = want

C9_Witness ==
    /\ table.table_type = "GPT" /\ pc = "alternate"
    /\ Len(table.partitions) = 2 /\ idx = 1
    /\ Len(wlog) = 5
    /\ wlog[4].off = SECTOR_SIZE

\* C10: when the primary header fails a check after a GPT write (its signature, its
\* bytes or its entries were damaged), read falls back to the alternate header and
\* returns the partitions that were written.
C10_AlternateRecovery ==
    (pc = "read" /\ scrambled # "none" /\ ValidGptTable) => ReadBackGpt

(***************************************************************************)
(* Claims about the script form.                                           *)
(***************************************************************************)
\* the invariants of a PartitionTable: the partitions are of the table's kind and no
\* more than the table type holds
TableInvariants(t) ==
    /\ t.table_type \in {"MBR", "GPT"}
    /\ Len(t.partitions) <= (IF t.table_type = "MBR" THEN 4 ELSE 128)
    /\ \A k \in 1..Len(t.partitions) : t.partitions[k].part_type.kind = t.table_type

\* C3: for every PartitionTable whose invariants hold and every device path,
\* deserialize(serialize(t, path)) succeeds and gives back the same table_type and the
\* same partitions in the same order.
C3_ScriptRoundTrip ==
    (pc = "parsed" /\ TableInvariants(table)) =>
        /\ parsed.status = "ok"
        /\ parsed.table_type = table.table_type
        /\ parsed.partitions = table.partitions

(***************************************************************************)
(* Claims about the ext2 initializer.                                      *)
(***************************************************************************)
ByteAt(d, a) == IF a \in DOMAIN d THEN d[a] ELSE 0

\* bit k of the bitmap that starts at byte offset off
BitAt(d, off, k) == (ByteAt(d, off + (k \div 8)) \div pow2(k % 8)) % 2 = 1

SetBits(d, off, nbits) == Cardinality({k \in 0..(nbits - 1) : BitAt(d, off, k)})

\* create has returned Ok
Created == fs.created

SuperblockOnDevice == SuperblockFromBytes(ReadBytes(dev, SUPERBLOCK_OFFSET, SUPERBLOCK_SIZE))

DescriptorOnDevice(g) ==
    BGDFromBytes(ReadBytes(dev, BGD_get_disk_offset(g, fs.superblock), BGD_SIZE))

\* C4: is_present returns true exactly when the 16-bit little-endian magic at device
\* offset 1024 + 56 is 0xEF53, and after a create that returned Ok it returns true.
C4_IsPresent ==
    pc = "checked" =>
        /\ (fs.present = "true") <=> (ByteAt(dev, 1080) = 83 /\ ByteAt(dev, 1081) = 239)
        /\ Created => fs.present = "true"

C4_Witness == pc = "checked" /\ Created /\ fs.present = "true" /\ fs.groups_count >= 1

\* C5: after create, for every block group g, bit k of the block bitmap is set iff
\* block g * blocks_per_group + k is below used_blocks_end, bit k of the inode bitmap
\* is set iff that inode (number g * inodes_per_group + k + 1) is reserved, i.e. below
\* the first non-reserved inode s_first_ino, every other bit is clear, and the
\* descriptor's free counts are the group's size minus the set bits of its bitmap.
C5_GroupAccounting ==
    Created =>
        \A g \in 0..(fs.groups_count - 1) :
            LET bgd == DescriptorOnDevice(g)
                bs == fs.block_size
                bbits == fs.block_usage_bitmap_size * bs * 8
                ibits == fs.inode_usage_bitmap_size * bs * 8
            IN  /\ \A k \in 0..(bbits - 1) :
                        BitAt(dev, bgd.bg_block_bitmap * bs, k)
                            <=> (k < fs.blocks_per_group
                                 /\ g * fs.blocks_per_group + k < fs.used_blocks_end)
                /\ \A k \in 0..(ibits - 1) :
                        BitAt(dev, bgd.bg_inode_bitmap * bs, k)
                            <=> (k < fs.inodes_per_group
                                 /\ g * fs.inodes_per_group + k + 1 < fs.superblock.s_first_ino)
                /\ bgd.bg_free_blocks_count
                        = fs.blocks_per_group - SetBits(dev, bgd.bg_block_bitmap * bs, bbits)
                /\ bgd.bg_free_inodes_count
                        = fs.inodes_per_group - SetBits(dev, bgd.bg_inode_bitmap * bs, ibits)

RECURSIVE SumFree(_, _)
SumFree(g, field) ==
    IF g = 0 THEN 0
    ELSE SumFree(g - 1, field)
            + (IF field = "blocks" THEN DescriptorOnDevice(g - 1).bg_free_blocks_count
               ELSE DescriptorOnDevice(g - 1).bg_free_inodes_count)

\* C6: after create, for every device length, s_free_blocks_count is s_blocks_count
\* minus the used_blocks_end blocks of the reserved prefix, s_free_inodes_count is
\* s_inodes_count minus the reserved inodes (those below s_first_ino), and each is the
\* sum of the descriptors' free counts.
C6_AggregateFreeCounts ==
    Created =>
        LET sb == SuperblockOnDevice
        IN  /\ sb.s_free_blocks_count = sb.s_blocks_count - fs.used_blocks_end
            /\ sb.s_free_inodes_count = sb.s_inodes_count - (sb.s_first_ino - 1)
            /\ sb.s_free_blocks_count = SumFree(fs.groups_count, "blocks")
            /\ sb.s_free_inodes_count = SumFree(fs.groups_count, "inodes")

RootBlockOffset == (fs.used_blocks_end - 1) * fs.block_size

EntryAt(off) == DirectoryEntryFromBytes(ReadBytes(dev, RootBlockOffset + off, DIRENT_SIZE))

\* the offsets visited when the block is walked by rec_len from offset off, followed
\* by the offset the walk stops at
RECURSIVE Walk(_, _)
Walk(off, fuel) ==
    IF off >= fs.block_size \/ fuel = 0 \/ EntryAt(off).rec_len = 0 THEN <<off>>
    ELSE <<off>> \o Walk(off + EntryAt(off).rec_len, fuel - 1)

\* the root block holds `.` with a record of self_len bytes, then `..` with the rest
RootEntries(self_len) ==
    /\ EntryAt(0) = [inode |-> 2, rec_len |-> self_len, name_len |-> 1, file_type |-> 0]
    /\ ReadBytes(dev, RootBlockOffset + DIRENT_SIZE, 1) = <<46>>
    /\ EntryAt(self_len) = [inode |-> 2, rec_len |-> fs.block_size - self_len,
                            name_len |-> 2, file_type |-> 0]
    /\ ReadBytes(dev, RootBlockOffset + self_len + DIRENT_SIZE, 2) = <<46, 46>>
    /\ Walk(0, 4) = <<0, self_len, fs.block_size>>

\* C7 as stated: after create, the root directory block holds `.` at offset 0 with
\* inode 2, rec_len 12 and name_len 1, then `..` at offset 12 with inode 2,
\* rec_len block_size - 12 and name_len 2, both of type 0, and the walk by rec_len
\* visits these two and ends at the end of the block.
C7_RootEntries12 == Created => RootEntries(12)

\* C7 as amended: the same with rec_len 16 for `.`, `..` at offset 16 and
\* rec_len block_size - 16 for `..`.
C7_RootEntries16 == Created => RootEntries(16)

C7_Witness ==
    /\ Created /\ fs.groups_count >= 1
    /\ EntryAt(16).rec_len = fs.block_size - 16
    /\ Walk(0, 4) = <<0, 16, fs.block_size>>

(***************************************************************************)
(* Claims about the MBR and GPT records on the device.                     *)
(***************************************************************************)
\* the little-endian value of the w bytes at offset off of the device
FieldAt(off, w) == FromLE([k \in 1..w |-> ByteAt(dev, off + k - 1)])

GptWriteDone == pc = "done" /\ table.table_type = "GPT" /\ scrambled = "none"

\* C11: after a GPT write on a device of N sectors, sector 0 holds an MBR whose entry 0
\* has type 0xEE, lba_start 1, sectors_count min(2^32 - 1, N - 1) (N - 1 for the device
\* sizes here) and attrs bit 7 set, whose entries 1 to 3 are zero and whose bytes
\* 510..511 are 55 AA.
C11_ProtectiveMbr ==
    GptWriteDone =>
        /\ ByteAt(dev, 450) = 238
        /\ FieldAt(454, 4) = 1
        /\ FieldAt(458, 4) = sectors_count - 1
        /\ ByteAt(dev, 446) \div 128 = 1
        /\ \A o \in 462..509 : ByteAt(dev, o) = 0
        /\ ByteAt(dev, 510) = 85 /\ ByteAt(dev, 511) = 170

\* C12: whatever the device held and whatever the table, a step of the MBR write
\* (PartitionTableType::MBR.write, also used for the protective MBR) changes no byte
\* outside 440..511.
C12_MbrWriteFrame ==
    [][(pc \in {"mbr", "gpt"}) =>
          (\A o \in ((DOMAIN dev) \cup (DOMAIN dev')) \ (440..511) :
              ByteAt(dev', o) = ByteAt(dev, o))]_vars

C12_Witness ==
    /\ pc = "done" /\ ValidMbrTable /\ Len(table.partitions) = 2
    /\ wlog = <<[off |-> 440, len |-> 72]>>
    /\ ByteAt(dev, 0) = 235 /\ ByteAt(dev, 2) = 144
    /\ FieldAt(458, 4) = table.partitions[1].size

\* the partitions of the MBR in sector 0, from the slot k on, taken from the raw bytes
RECURSIVE SlotsFrom(_)
SlotsFrom(k) ==
    IF k > 3 THEN <<>>
    ELSE LET e == 446 + 16 * k
         IN  (IF FieldAt(e + 12, 4) # 0
              THEN <<[start |-> FieldAt(e + 8, 4), size |-> FieldAt(e + 12, 4),
                      part_type |-> MBRType(ByteAt(dev, e + 4)), uuid |-> None,
                      bootable |-> ByteAt(dev, e) >= 128]>>
              ELSE <<>>) \o SlotsFrom(k + 1)

\* C13: the MBR read reports "no MBR" exactly when the little-endian word at offset 510
\* is not 0xAA55; otherwise it returns, in slot order, one partition per entry whose
\* sectors_count is not 0, with start = lba_start, size = sectors_count, type
\* Mbr(partition_type), bootable = attrs bit 7 and no uuid.
C13_MbrRead ==
    pc = "read_mbr" =>
        /\ (result.status = "none") <=> (FieldAt(510, 2) # 43605)
        /\ FieldAt(510, 2) = 43605 =>
              (result.status = "some" /\ result.partitions = SlotsFrom(0))

C13_Witness ==
    /\ pc = "read_mbr" /\ result.status = "some"
    /\ Len(result.partitions) = 1
    /\ result.partitions[1].start # result.partitions[1].size
    /\ \E k \in 0..3 : ByteAt(dev, 450 + 16 * k) # 0 /\ FieldAt(458 + 16 * k, 4) = 0

\* the entries of the primary GPT array whose type GUID is not zero, from entry i on
RECURSIVE TypedEntriesFrom(_, _)
TypedEntriesFrom(i, n) ==
    IF i >= n THEN <<>>
    ELSE LET e == GPTEntryFromBytes(ReadBytes(dev, 1024 + 128 * i, GPT_ENTRY_SIZE))
         IN  (IF e.partition_type # ZeroGuid THEN <<e>> ELSE <<>>)
                \o TypedEntriesFrom(i + 1, n)

\* C19: the GPT read emits one partition, in array order, for exactly the entries whose
\* partition-type GUID is not zero.
C19_GptEntrySelection ==
    (pc = "read" /\ scrambled = "none" /\ table.table_type = "GPT") =>
        LET typed == TypedEntriesFrom(0, FieldAt(512 + 80, 4))
        IN  /\ result.status = "ok" /\ result.table_type = "GPT"
            /\ Len(result.partitions) = Len(typed)
            /\ \A k \in 1..Len(typed) :
                  /\ result.partitions[k].part_type = GPTType(typed[k].partition_type)
                  /\ result.partitions[k].start = typed[k].start

\* C20: for each partition {start, size} of a GPT write, the entry on the device has
\* first LBA start and last LBA start + size - 1, the last sector included.
C20_GptEntryRange ==
    GptWriteDone =>
        \A k \in 1..Len(table.partitions) :
            LET e == GPTEntryFromBytes(ReadBytes(dev, 1024 + 128 * (k - 1), GPT_ENTRY_SIZE))
            IN  /\ e.start = table.partitions[k].start
                /\ e.end = table.partitions[k].start + table.partitions[k].size - 1

(***************************************************************************)
(* partition.rs: translate_lba on the whole of i64 and u64.  A 64-bit      *)
(* integer is the tuple of its 8 little-endian bytes; an i64 is in two's   *)
(* complement.                                                             *)
(***************************************************************************)
I64_MIN == <<0, 0, 0, 0, 0, 0, 0, 128>>

U64_MAX == <<255, 255, 255, 255, 255, 255, 255, 255>>

\* lba < 0 for an i64
I64Negative(a) == a[8] >= 128

\* a < b for two u64, decided at the most significant byte where they differ
RECURSIVE U64LtFrom(_, _, _)
U64LtFrom(a, b, k) ==
    IF k = 0 THEN FALSE
    ELSE IF a[k] # b[k] THEN a[k] < b[k]
    ELSE U64LtFrom(a, b, k - 1)

U64Lt(a, b) == U64LtFrom(a, b, 8)

U64Le(a, b) == ~U64Lt(b, a)

\* the borrow into byte k of a - b
RECURSIVE Borrow(_, _, _)
Borrow(a, b, k) ==
    IF k = 1 THEN 0
    ELSE IF a[k - 1] - b[k - 1] - Borrow(a, b, k - 1) < 0 THEN 1 ELSE 0

\* a - b on 64 bits, modulo 2^64
wrapping_sub(a, b) == [k \in 1..8 |-> (a[k] - b[k] - Borrow(a, b, k) + 256) % 256]

\* -a on 64 bits, modulo 2^64: what `-lba` gives when overflow is not checked
wrapping_neg(a) == wrapping_sub(Zeros(8), a)

\* the outcome of translate_lba: Some(value), None, or the panic of an arithmetic overflow
LbaSome(v) == [status |-> "some", value |-> v]

LbaNone == [status |-> "none", value |-> Zeros(8)]

LbaPanic == [status |-> "panic", value |-> Zeros(8)]

\* translate_lba; `-lba` overflows for i64::MIN: a panic in a build with overflow checks
\* (the debug profile), i64::MIN again in a build without them (the release profile)
translate_lba64(lba, storage_size, overflow_checks) ==
    IF I64Negative(lba)
    THEN IF lba = I64_MIN /\ overflow_checks THEN LbaPanic
         ELSE IF U64Le(wrapping_neg(lba), storage_size)
              THEN LbaSome(wrapping_sub(storage_size, wrapping_neg(lba)))
              ELSE LbaNone
    ELSE IF U64Lt(lba, storage_size) THEN LbaSome(lba) ELSE LbaNone

(***************************************************************************)
(* translate_lba applied on its own.  An input is a sign and a magnitude;  *)
(* the magnitudes lie around 0, 34, 2^32, 2^63 and 2^64 - 1.               *)
(***************************************************************************)
LbaNear == 1

\* the carry into byte k of a + b
RECURSIVE Carry(_, _, _)
Carry(a, b, k) ==
    IF k = 1 THEN 0
    ELSE IF a[k - 1] + b[k - 1] + Carry(a, b, k - 1) > 255 THEN 1 ELSE 0

\* a + b, modulo 2^64
U64Add(a, b) == [k \in 1..8 |-> (a[k] + b[k] + Carry(a, b, k)) % 256]

\* a + b does not fit 64 bits
U64AddOverflows(a, b) == Carry(a, b, 9) = 1

LbaPivots == {Zeros(8), LE(34, 8), <<0, 0, 0, 0, 1, 0, 0, 0>>, I64_MIN, U64_MAX}

LbaMagnitudes ==
    UNION {{U64Add(p, LE(d, 8)) : d \in {e \in 0..LbaNear : ~U64AddOverflows(p, LE(e, 8))}}
              \cup {wrapping_sub(p, LE(d, 8)) : d \in {e \in 0..LbaNear : U64Le(LE(e, 8), p)}}
           : p \in LbaPivots}

\* the two's complement of a magnitude: the bytes are complemented, and one is added, which
\* carries through the low bytes that were zero
TwosComplement(m) ==
    [k \in 1..8 |-> IF \A j \in 1..(k - 1) : m[j] = 0 THEN (256 - m[k]) % 256 ELSE 255 - m[k]]

\* the i64 values: 0 .. 2^63 - 1 and -1 .. -2^63
LbaInputs ==
    {[neg |-> FALSE, mag |-> m, lba |-> m] : m \in {x \in LbaMagnitudes : U64Lt(x, I64_MIN)}}
        \cup {[neg |-> TRUE, mag |-> m, lba |-> TwosComplement(m)]
                 : m \in {x \in LbaMagnitudes : x # Zeros(8) /\ U64Le(x, I64_MIN)}}

InitLba ==
    /\ InitCommon
    /\ dev = FreshImage
    /\ sectors_count = 0
    /\ \E i \in LbaInputs, total \in LbaMagnitudes :
          call = [fn |-> "translate_lba", neg |-> i.neg, mag |-> i.mag, lba |-> i.lba,
                  storage_size |-> total, overflow_checks |-> FALSE, done |-> FALSE,
                  ret |-> LbaNone]

\* translate_lba(lba, storage_size), in a build with or without overflow checks
TranslateLba(overflow_checks) ==
    /\ call.fn = "translate_lba"
    /\ ~call.done
    /\ call' = [call EXCEPT !.overflow_checks = overflow_checks, !.done = TRUE,
                            !.ret = translate_lba64(call.lba, call.storage_size, overflow_checks)]
    /\ UNCHANGED <<dev, sectors_count, pc, table, gpt, idx, wlog, scrambled, result, path,
                   script, parsed, fs>>

NextLba == \E overflow_checks \in BOOLEAN : TranslateLba(overflow_checks)

SpecLba == InitLba /\ [][NextLba]_vars

(***************************************************************************)
(* Claims about translate_lba.                                             *)
(***************************************************************************)
LbaDone == call.fn = "translate_lba" /\ call.done

\* C14: for every i64 lba and every u64 total, translate_lba(lba, total) never aborts; it is
\* Some(lba) when 0 <= lba < total, Some(total - |lba|) when lba < 0 and |lba| <= total, and
\* None for every other lba; a result Some(v) has v < total.
C14_TranslateLba ==
    LbaDone =>
        /\ call.ret.status # "panic"
        /\ (~call.neg /\ U64Lt(call.mag, call.storage_size))
              => call.ret = LbaSome(call.mag)
        /\ (call.neg /\ U64Le(call.mag, call.storage_size))
              => /\ call.ret.status = "some"
                 /\ ~U64AddOverflows(call.ret.value, call.mag)
                 /\ U64Add(call.ret.value, call.mag) = call.storage_size
        /\ (~call.neg /\ ~U64Lt(call.mag, call.storage_size)) => call.ret = LbaNone
        /\ (call.neg /\ ~U64Le(call.mag, call.storage_size)) => call.ret = LbaNone
        /\ call.ret.status = "some" => U64Lt(call.ret.value, call.storage_size)

(***************************************************************************)
(* crc32.rs applied on its own: the checksum of a buffer, then the         *)
(* checksum of the buffer followed by it, and the test crc32_0.            *)
(***************************************************************************)
MaxSmallPolynom == 2

MaxBufLen == 3

BufBytes == {0, 1, 255}

\* the generator polynomials: the one of GPT, and the first ones of the sweep of crc32_0
CrcPolynoms == {GPT_CHECKSUM_POLYNOM} \cup {<<p, 0, 0, 0>> : p \in 0..MaxSmallPolynom}

CrcBuffers == UNION {[1..n -> BufBytes] : n \in 0..MaxBufLen}

\* let mut lookup_table = [0; 256]; compute_lookuptable(&mut lookup_table, polynom)
lookup_table == [p \in CrcPolynoms |-> compute_lookuptable(p)]

InitCrc ==
    /\ InitCommon
    /\ dev = FreshImage
    /\ sectors_count = 0
    /\ \E p \in CrcPolynoms, b \in CrcBuffers :
          call = [fn |-> "compute", polynom |-> p, data |-> b, stage |-> "start",
                  checksum |-> <<0, 0, 0, 0>>, ret |-> <<0, 0, 0, 0>>]

CallUnchanged ==
    UNCHANGED <<dev, sectors_count, pc, table, gpt, idx, wlog, scrambled, result, path,
                script, parsed, fs>>

\* checksum = compute(data, table)
Checksum ==
    /\ call.fn = "compute"
    /\ call.stage = "start"
    /\ call' = [call EXCEPT !.stage = "summed",
                            !.checksum = compute(call.data, lookup_table[call.polynom])]
    /\ CallUnchanged

\* compute(data followed by the little-endian bytes of checksum, table)
SelfCheck ==
    /\ call.fn = "compute"
    /\ call.stage = "summed"
    /\ call' = [call EXCEPT !.stage = "checked",
                            !.ret = compute(call.data \o call.checksum,
                                            lookup_table[call.polynom])]
    /\ CallUnchanged

\* one iteration of the test crc32_0: data = [i, i >> 8, 0, 0, 0, 0], and check is data with
\* its last four bytes replaced by the checksum of data
crc32_0 ==
    /\ call.fn = "compute"
    /\ call.stage = "start"
    /\ Len(call.data) = 2
    /\ LET checksum == compute(call.data \o <<0, 0, 0, 0>>, lookup_table[call.polynom])
       IN  call' = [call EXCEPT !.stage = "tested", !.checksum = checksum,
                                !.ret = compute(call.data \o checksum,
                                                lookup_table[call.polynom])]
    /\ CallUnchanged

NextCrc ==
    \/ Checksum
    \/ SelfCheck
    \/ crc32_0

SpecCrc == InitCrc /\ [][NextCrc]_vars

(***************************************************************************)
(* Claims about the checksum.                                              *)
(***************************************************************************)
\* C15: for every buffer B and every table T of compute_lookuptable, the buffer made of B
\* followed by the four little-endian bytes of compute(B, T) has checksum 0.
C15_CrcSelfCheck ==
    (call.fn = "compute" /\ call.stage = "checked") => call.ret = <<0, 0, 0, 0>>

\* one step of the bit-serial reflected CRC: shift the register right, and XOR the
\* polynomial in when the bit shifted out differs from the input bit
BitStep(crc, bit, polynom) ==
    IF crc[1] % 2 # bit THEN Xor32(Shr1(crc), polynom) ELSE Shr1(crc)

\* n steps over the low n bits of byte b, least significant bit first
RECURSIVE BitSteps(_, _, _, _)
BitSteps(crc, b, n, polynom) ==
    IF n = 0 THEN crc
    ELSE BitSteps(BitStep(crc, b % 2, polynom), b \div 2, n - 1, polynom)

RECURSIVE BitSerialRegister(_, _, _)
BitSerialRegister(data, crc, polynom) ==
    IF data = <<>> THEN crc
    ELSE BitSerialRegister(Tail(data), BitSteps(crc, Head(data), 8, polynom), polynom)

\* register initialised to all ones, final complement
BitSerialCrc(data, polynom) ==
    Not32(BitSerialRegister(data, <<255, 255, 255, 255>>, polynom))

\* C26: for every polynomial p and every byte sequence, compute(data, T) with T filled by
\* compute_lookuptable(p) on a zeroed table equals the bit-serial reflected CRC of the data,
\* and every T[n] equals eight shift steps applied to the register n.
C26_TableEqualsBitSerial ==
    (call.fn = "compute" /\ call.stage = "summed") =>
        /\ call.checksum = BitSerialCrc(call.data, call.polynom)
        /\ \A n \in 0..255 :
              lookup_table[call.polynom][n] = BitSteps(<<n, 0, 0, 0>>, 0, 8, call.polynom)

\* the checksum of the single byte 0 under the polynomial of GPT is 0xd202ef8d
C26_Witness ==
    /\ call.fn = "compute"
    /\ call.stage = "summed"
    /\ call.polynom = GPT_CHECKSUM_POLYNOM
    /\ call.data = <<0>>
    /\ call.checksum = <<141, 239, 2, 210>>
    /\ call.checksum = BitSerialCrc(call.data, call.polynom)

(***************************************************************************)
(* guid.rs: Guid as text                                                   *)
(***************************************************************************)
\* the closure of filter_map: the value of a hexadecimal digit, or -1 for None
Guid_digit(c) ==
    IF \E k \in 1..10 : HexDigits[k] = c THEN (CHOOSE k \in 1..10 : HexDigits[k] = c) - 1
    ELSE IF \E k \in 11..16 : UpperHex[k] = c THEN (CHOOSE k \in 11..16 : UpperHex[k] = c) - 1
    ELSE IF \E k \in 11..16 : HexDigits[k] = c THEN (CHOOSE k \in 11..16 : HexDigits[k] = c) - 1
    ELSE -1

\* the storage index (from 0) of the i-th byte (from 0) of the text: the first three
\* groups are reversed (Guid_index_identity would keep the order of the text)
Guid_index_identity(i) == i

Guid_index(i) ==
    IF i < 4 THEN 4 - i - 1
    ELSE IF i < 6 THEN 6 - i - 1 + 4
    ELSE IF i < 8 THEN 8 - i - 1 + 6
    ELSE i

\* impl FromStr for Guid: [status, guid], status "ok", "err" or "panic".  The characters
\* that are no hexadecimal digits are dropped, the digits are taken two by two
\* (array_chunks leaves a last lone digit out), and guid.0[index] panics from index 16 on
Guid_from_str(str) ==
    IF Len(str) # 36 THEN [status |-> "err", guid |-> ZeroGuid]
    ELSE IF \E k \in 1..36 : ~IsAlphanumeric(str[k]) /\ str[k] # "-"
    THEN [status |-> "err", guid |-> ZeroGuid]
    ELSE LET digits == SelectSeq(str, LAMBDA c : Guid_digit(c) >= 0)
             n == Len(digits) \div 2
         IN  IF \E i \in 0..(n - 1) : Guid_index(i) > 15
             THEN [status |-> "panic", guid |-> ZeroGuid]
             ELSE [status |-> "ok",
                   guid |-> [j \in 1..16 |->
                       LET src == {i \in 0..(n - 1) : Guid_index(i) = j - 1}
                       IN  IF src = {} THEN 0
                           ELSE LET i == CHOOSE i \in src : \A h \in src : h <= i
                                IN  16 * Guid_digit(digits[2 * i + 1])
                                       + Guid_digit(digits[2 * i + 2])]]

\* impl fmt::Display for Guid: the first three groups are printed from their last byte
\* to their first (Guid_fmt_storage_order would print every group in storage order)
Guid_fmt_storage_order(g) ==
    FmtHex02(g[1]) \o FmtHex02(g[2]) \o FmtHex02(g[3]) \o FmtHex02(g[4]) \o <<"-">>
        \o FmtHex02(g[5]) \o FmtHex02(g[6]) \o <<"-">>
        \o FmtHex02(g[7]) \o FmtHex02(g[8]) \o <<"-">>
        \o FmtHex02(g[9]) \o FmtHex02(g[10]) \o <<"-">>
        \o FmtHex02(g[11]) \o FmtHex02(g[12]) \o FmtHex02(g[13])
        \o FmtHex02(g[14]) \o FmtHex02(g[15]) \o FmtHex02(g[16])

Guid_fmt(g) ==
    FmtHex02(g[4]) \o FmtHex02(g[3]) \o FmtHex02(g[2]) \o FmtHex02(g[1]) \o <<"-">>
        \o FmtHex02(g[6]) \o FmtHex02(g[5]) \o <<"-">>
        \o FmtHex02(g[8]) \o FmtHex02(g[7]) \o <<"-">>
        \o FmtHex02(g[9]) \o FmtHex02(g[10]) \o <<"-">>
        \o FmtHex02(g[11]) \o FmtHex02(g[12]) \o FmtHex02(g[13])
        \o FmtHex02(g[14]) \o FmtHex02(g[15]) \o FmtHex02(g[16])

(***************************************************************************)
(* The GUID functions applied on their own, in partition.rs (GUID) and in  *)
(* guid.rs (Guid): a value is rendered and the text parsed, or a text is   *)
(* parsed and the value rendered.                                          *)
(***************************************************************************)
GuidImpls == {"GUID", "Guid"}

GuidFmt(impl, g) == IF impl = "GUID" THEN GUID_fmt(g) ELSE Guid_fmt(g)

GuidParse(impl, str) == IF impl = "GUID" THEN GUID_try_from(str) ELSE Guid_from_str(str)

GuidSampleBytes == {0, 10, 175, 255}

\* 16-byte values: every position takes every sample byte
GuidValues ==
    {ZeroGuid, GUID_EFI, GUID_LINUX, GUID_SEQ, [k \in 1..16 |-> 255]}
        \cup {[GUID_SEQ EXCEPT ![k] = v] : k \in 1..16, v \in GuidSampleBytes}

\* the text of the test guid_parse_valid
EFI_TEXT ==
    <<"c", "1", "2", "a", "7", "3", "2", "8", "-", "f", "8", "1", "f", "-",
      "1", "1", "d", "2", "-", "b", "a", "4", "b", "-",
      "0", "0", "a", "0", "c", "9", "3", "e", "c", "9", "3", "b">>

\* char::to_ascii_uppercase and to_ascii_lowercase, on the characters used here
AsciiUpper(c) ==
    IF \E k \in 11..16 : HexDigits[k] = c THEN UpperHex[CHOOSE k \in 11..16 : HexDigits[k] = c]
    ELSE IF c = "g" THEN "G" ELSE IF c = "z" THEN "Z" ELSE c

AsciiLower(c) ==
    IF \E k \in 11..16 : UpperHex[k] = c THEN HexDigits[CHOOSE k \in 11..16 : UpperHex[k] = c]
    ELSE IF c = "G" THEN "g" ELSE IF c = "Z" THEN "z" ELSE c

UpperText(str) == [k \in 1..Len(str) |-> AsciiUpper(str[k])]

LowerText(str) == [k \in 1..Len(str) |-> AsciiLower(str[k])]

\* upper case at the odd positions only
MixedText(str) == [k \in 1..Len(str) |-> IF k % 2 = 1 THEN AsciiUpper(str[k]) ELSE str[k]]

\* well-formed texts, in lower, upper and mixed case
GuidGoodTexts ==
    {EFI_TEXT, UpperText(EFI_TEXT)}
        \cup UNION {{Guid_fmt(g), UpperText(Guid_fmt(g)), MixedText(Guid_fmt(g))}
                       : g \in {GUID_LINUX, GUID_SEQ, [k \in 1..16 |-> 255],
                                [GUID_SEQ EXCEPT ![1] = 175], [GUID_SEQ EXCEPT ![16] = 10]}}

GuidBadChars == {"$", " ", "g", "G", "z", "-", "0"}

\* texts of another length (those of the test guid_parse_invalid among them), and texts of
\* 36 characters with one character replaced
GuidBadTexts ==
    LET nodash == SelectSeq(EFI_TEXT, LAMBDA c : c # "-")
    IN  {nodash, SubSeq(nodash, 1, 31), SubSeq(nodash, 1, 31) \o <<"$">>,
         <<>>, SubSeq(EFI_TEXT, 1, 35), EFI_TEXT \o <<"0">>, EFI_TEXT \o <<"$">>}
            \cup {[t EXCEPT ![k] = c] : t \in {EFI_TEXT, UpperText(EFI_TEXT)},
                                       k \in 1..36, c \in GuidBadChars}
            \cup {[k \in 1..36 |-> IF EFI_TEXT[k] = "-" THEN "0" ELSE EFI_TEXT[k]]}

NoGuidResult == [status |-> "", guid |-> ZeroGuid]

InitGuid ==
    /\ InitCommon
    /\ dev = FreshImage
    /\ sectors_count = 0
    /\ \E impl \in GuidImpls :
          \/ \E g \in GuidValues :
                call = [fn |-> "guid", impl |-> impl, stage |-> "value", guid |-> g,
                        text |-> <<>>, ret |-> NoGuidResult, out |-> <<>>]
          \/ \E t \in GuidGoodTexts \cup GuidBadTexts :
                call = [fn |-> "guid", impl |-> impl, stage |-> "text", guid |-> ZeroGuid,
                        text |-> t, ret |-> NoGuidResult, out |-> <<>>]

\* format!("{}", guid) of the value given
RenderValue ==
    /\ call.fn = "guid"
    /\ call.stage = "value"
    /\ call' = [call EXCEPT !.stage = "rendered", !.text = GuidFmt(call.impl, call.guid)]
    /\ CallUnchanged

\* the text, given or rendered, is parsed
ParseText ==
    /\ call.fn = "guid"
    /\ call.stage \in {"text", "rendered"}
    /\ call' = [call EXCEPT !.stage = IF call.stage = "text" THEN "parsed" ELSE "reparsed",
                            !.ret = GuidParse(call.impl, call.text)]
    /\ CallUnchanged

\* format!("{}", guid) of the value parsed from the text given
RenderParsed ==
    /\ call.fn = "guid"
    /\ call.stage = "parsed"
    /\ call.ret.status = "ok"
    /\ call' = [call EXCEPT !.stage = "rerendered", !.out = GuidFmt(call.impl, call.ret.guid)]
    /\ CallUnchanged

NextGuid ==
    \/ RenderValue
    \/ ParseText
    \/ RenderParsed

SpecGuid == InitGuid /\ [][NextGuid]_vars

(***************************************************************************)
(* Claims about GUIDs as text.                                             *)
(***************************************************************************)
HexChars == {HexDigits[k] : k \in 1..16} \cup {UpperHex[k] : k \in 1..16}

HexValue(c) == CHOOSE v \in 0..15 : HexDigits[v + 1] = c \/ UpperHex[v + 1] = c

\* 36 characters: hexadecimal digits, with a dash after the 8th, 12th, 16th and 20th digit
ValidGuidText(str) ==
    /\ Len(str) = 36
    /\ \A k \in 1..36 : IF k \in {9, 14, 19, 24} THEN str[k] = "-" ELSE str[k] \in HexChars

GuidCall(stage) == call.fn = "guid" /\ call.stage = stage

\* C16: parsing the rendering of any 16-byte value gives the value back; a valid textual
\* GUID is parsed, and the rendering of the value parsed is the text up to the case of its
\* letters, and is in lower case.
C16_GuidRoundTrip ==
    /\ GuidCall("reparsed") => call.ret = [status |-> "ok", guid |-> call.guid]
    /\ (GuidCall("parsed") /\ ValidGuidText(call.text)) => call.ret.status = "ok"
    /\ (GuidCall("rerendered") /\ ValidGuidText(call.text))
          => /\ UpperText(call.out) = UpperText(call.text)
             /\ call.out = LowerText(call.out)

C16_Witness ==
    /\ GuidCall("rerendered")
    /\ call.impl = "Guid"
    /\ call.text = MixedText(Guid_fmt(GUID_LINUX))
    /\ call.out # call.text
    /\ call.ret.guid = GUID_LINUX

\* the storage index of the k-th pair of digits, as the claim gives it
PairIndex(k) ==
    IF k < 4 THEN 3 - k
    ELSE IF k < 6 THEN 9 - k
    ELSE IF k < 8 THEN 13 - k
    ELSE k

\* C17: parsing a valid textual GUID stores the k-th pair of hexadecimal digits (dashes
\* removed, k from 0) at index 3 - k for k < 4, 9 - k for k in 4..5, 13 - k for k in 6..7
\* and k from 8 on, whatever the case of the letters; the text of the EFI system partition
\* type gives 28 73 2A C1 1F F8 D2 11 BA 4B 00 A0 C9 3E C9 3B in both cases.
C17_GuidByteOrder ==
    (GuidCall("parsed") /\ ValidGuidText(call.text)) =>
        /\ call.ret.status = "ok"
        /\ LET hex == SelectSeq(call.text, LAMBDA c : c # "-")
           IN  \A k \in 0..15 :
                  call.ret.guid[PairIndex(k) + 1]
                      = 16 * HexValue(hex[2 * k + 1]) + HexValue(hex[2 * k + 2])
        /\ call.text \in {EFI_TEXT, UpperText(EFI_TEXT)}
              => call.ret.guid = <<40, 115, 42, 193, 31, 248, 210, 17,
                                   186, 75, 0, 160, 201, 62, 201, 59>>

C17_Witness ==
    /\ GuidCall("parsed")
    /\ call.impl = "Guid"
    /\ call.text = UpperText(EFI_TEXT)
    /\ call.text # EFI_TEXT
    /\ call.ret = [status |-> "ok", guid |-> GUID_EFI]

\* C18: parsing returns an error, never a value and never an abort, for every text whose
\* length is not 36 and for every text with a character that is neither a hexadecimal
\* digit nor a dash.
C18_GuidRejection ==
    (/\ GuidCall("parsed")
     /\ \/ Len(call.text) # 36
        \/ \E k \in 1..Len(call.text) : call.text[k] \notin HexChars \cup {"-"})
        => call.ret.status = "err"

(***************************************************************************)
(* Claims about the checks of write and read.                              *)
(***************************************************************************)
TooManyPartitions ==
    \/ table.table_type = "MBR" /\ Len(table.partitions) > 4
    \/ table.table_type = "GPT" /\ Len(table.partitions) > 128

InvalidPartitionType ==
    /\ table.table_type \in {"MBR", "GPT"}
    /\ \E k \in 1..Len(table.partitions) : table.partitions[k].part_type.kind # table.table_type

\* C21: a write given more partitions than the table type holds (4 for MBR, 128 for GPT),
\* or a partition whose part_type is not of the table's kind, ends by returning an error
\* to its caller: the program is not aborted.
C21_ErrorsReported == (TooManyPartitions \/ InvalidPartitionType) => pc # "panic"

\* C22: a write that completes has put on the device only partitions of the permitted
\* range: inside the storage, with start and start + size below 2^32, for MBR; inside
\* [first_usable, last_usable] = [34, N - 34] for GPT.
C22_RangesEnforced ==
    (pc = "done" /\ scrambled = "none") =>
        \A k \in 1..Len(table.partitions) :
            LET p == table.partitions[k]
            IN  IF table.table_type = "MBR"
                THEN p.start + p.size <= sectors_count
                ELSE p.start >= 34 /\ p.start + p.size - 1 <= sectors_count - 34

\* the header stored at byte offset off carries the signature and its own checksum
HeaderPasses(off) == SubSeq(HeaderAt(off), 1, 8) = GPT_SIGNATURE /\ HeaderChecksumValid(HeaderAt(off))

\* C24: on a device of at least two sectors PartitionTable::read never aborts; it returns
\* the GPT table when the primary header passes its checks, and, when neither header
\* does, an error or the MBR table of sector 0, which is empty without the MBR signature.
C24_DetectionNeverAborts ==
    (pc = "read" /\ sectors_count >= 2) =>
        /\ result.status # "panic"
        /\ HeaderPasses(SECTOR_SIZE) => (result.status = "ok" /\ result.table_type = "GPT")
        /\ (/\ ~HeaderPasses(SECTOR_SIZE)
            /\ ~HeaderPasses((sectors_count - 1) * SECTOR_SIZE)
            /\ result.status = "ok")
              => /\ result.table_type = "MBR"
                 /\ FieldAt(510, 2) # 43605 => result.partitions = <<>>

(***************************************************************************)
(* Claims about scripts written by hand.                                   *)
(***************************************************************************)
\* C23: deserialize returns an error, and no table, for every script with a partition
\* line on which start, size or type has no value, be the key absent from the line or
\* present without '=' and a value.
C23_RequiredValues ==
    (/\ pc = "parsed_given"
     /\ \/ call.start \in {"absent", "bare"}
        \/ call.size \in {"absent", "bare"}
        \/ call.type \in {"absent", "bare"})
        => parsed.status = "err"

(***************************************************************************)
(* Claims about the order of the writes of create.                         *)
(***************************************************************************)
MagicOnDevice == ByteAt(dev, 1080) = 83 /\ ByteAt(dev, 1081) = 239

\* C25: create writes the superblock after every bitmap, descriptor, root directory and
\* root inode write: once the superblock is written no step of create remains, and when
\* create stops on an I/O error of an earlier write, on a device on which is_present was
\* false, the device still carries no magic and is_present is still false.
C25_SuperblockLast ==
    /\ fs.created => pc \in {"created", "checked"}
    /\ (fs.failed /\ fs.present_before = "false") =>
          /\ ~MagicOnDevice
          /\ pc = "checked" => fs.present = "false"

C25_Witness ==
    /\ pc = "checked"
    /\ fs.failed
    /\ fs.present_before = "false"
    /\ fs.present = "false"
    /\ fs.groups_count = 2
    /\ idx = 1
    /\ \E a \in DOMAIN dev : dev[a] # 0

(***************************************************************************)
(* Claims about the layout of the metadata.                                *)
(***************************************************************************)
\* the blocks of the superblock and of the descriptor table
SuperblockBlocks ==
    (SUPERBLOCK_OFFSET \div fs.block_size)
        ..((SUPERBLOCK_OFFSET + SUPERBLOCK_SIZE - 1) \div fs.block_size)

DescriptorTableBlocks ==
    (BGD_get_disk_offset(0, SuperblockOnDevice) \div fs.block_size)..(fs.bgdt_end - 1)

\* the blocks of the bitmaps and of the inode table of group g, from its descriptor
BlockBitmapBlocks(g) ==
    LET first == DescriptorOnDevice(g).bg_block_bitmap
    IN  first..(first + fs.block_usage_bitmap_size - 1)

InodeBitmapBlocks(g) ==
    LET first == DescriptorOnDevice(g).bg_inode_bitmap
    IN  first..(first + fs.inode_usage_bitmap_size - 1)

InodeTableBlocks(g) ==
    LET first == DescriptorOnDevice(g).bg_inode_table
        size == fs.metadata_size - fs.block_usage_bitmap_size - fs.inode_usage_bitmap_size
    IN  first..(first + size - 1)

RootDirectoryBlocks == {fs.used_blocks_end - 1}

MetadataRegions ==
    <<SuperblockBlocks, DescriptorTableBlocks>>
        \o Flatten([g \in 1..fs.groups_count |->
                       <<BlockBitmapBlocks(g - 1), InodeBitmapBlocks(g - 1),
                         InodeTableBlocks(g - 1)>>])
        \o <<RootDirectoryBlocks>>

\* where create puts each region
LayoutAsComputed ==
    /\ BGD_get_disk_offset(0, SuperblockOnDevice)
           = ((SUPERBLOCK_OFFSET \div fs.block_size) + 1) * fs.block_size
    /\ \A g \in 0..(fs.groups_count - 1) :
          LET bgd == DescriptorOnDevice(g)
          IN  /\ bgd.bg_block_bitmap = fs.bgdt_end + g * fs.metadata_size
              /\ bgd.bg_inode_bitmap = bgd.bg_block_bitmap + fs.block_usage_bitmap_size
              /\ bgd.bg_inode_table = bgd.bg_inode_bitmap + fs.inode_usage_bitmap_size
    /\ ReadBytes(dev, (fs.used_blocks_end - 1) * fs.block_size, DIRENT_SIZE)
           = DirectoryEntryBytes(self_entry)

RegionsDisjoint ==
    LET regions == MetadataRegions
    IN  \A a, b \in 1..Len(regions) : a # b => regions[a] \cap regions[b] = {}

RegionsInVolume ==
    LET regions == MetadataRegions
        s_blocks_count == SuperblockOnDevice.s_blocks_count
    IN  \A a \in 1..Len(regions) : \A blk \in regions[a] : blk < s_blocks_count

\* C27: whenever create returns Ok, the descriptor table starts at block
\* (1024 / block_size) + 1, the block bitmap of group i starts at
\* bgdt_end + i * metadata_size and is followed by its inode bitmap and its inode table,
\* the root directory block is used_blocks_end - 1, and the superblock, the table, the
\* bitmaps and inode tables of all groups and the root directory block are pairwise
\* disjoint and below s_blocks_count.
C27_MetadataLayout ==
    Created => (LayoutAsComputed /\ RegionsDisjoint /\ RegionsInVolume)

(***************************************************************************)
(* Claims about the places of the GPT structures on the device.            *)
(***************************************************************************)
\* the sectors a completed GPT write has put each structure in; the entries take the
\* sectors their bytes were written to
EntriesSectors(first) ==
    first..(first + div_ceil(Len(table.partitions) * GPT_ENTRY_SIZE, SECTOR_SIZE) - 1)

GptRegions ==
    <<{0}, {1}, EntriesSectors(2),
      EntriesSectors(translate_lba(-33, sectors_count)[1]),
      {translate_lba(-1, sectors_count)[1]}>>

LastUsable == translate_lba(FromLE64s(SubSeq(HeaderAt(SECTOR_SIZE), 49, 56)), sectors_count)

FirstUsable == FromLE(SubSeq(HeaderAt(SECTOR_SIZE), 41, 48))

\* C28: whenever the GPT write returns Ok, the protective MBR (sector 0), the primary
\* header (1), the primary entries (from 2), the alternate entries (from N - 33) and the
\* alternate header (N - 1) are pairwise disjoint, none of them meets the usable range
\* [34, N - 34], and first_usable is at most the translation of last_usable.
C28_GptRegionsDisjoint ==
    GptWriteDone =>
        /\ \A a, b \in 1..Len(GptRegions) : a # b => GptRegions[a] \cap GptRegions[b] = {}
        /\ LastUsable # None
        /\ FirstUsable <= LastUsable[1]
        /\ \A a \in 1..Len(GptRegions) : GptRegions[a] \cap (FirstUsable..LastUsable[1]) = {}

\* the hdr_lba and alternate_hdr_lba fields of the header found in a sector
HdrLbaAt(sector) == FromLE64s(SubSeq(HeaderAt(sector * SECTOR_SIZE), 25, 32))

AlternateHdrLbaAt(sector) == FromLE64s(SubSeq(HeaderAt(sector * SECTOR_SIZE), 33, 40))

\* C29: after a GPT write, the primary header (sector 1) has hdr_lba = 1 and an
\* alternate_hdr_lba that translates to N - 1, and the alternate header (sector N - 1)
\* has an hdr_lba that translates to N - 1 and alternate_hdr_lba = 1.
C29_HeaderSelfReference ==
    GptWriteDone =>
        /\ HdrLbaAt(1) = 1
        /\ translate_lba(AlternateHdrLbaAt(1), sectors_count) = Some(sectors_count - 1)
        /\ translate_lba(HdrLbaAt(sectors_count - 1), sectors_count) = Some(sectors_count - 1)
        /\ AlternateHdrLbaAt(sectors_count - 1) = 1

(***************************************************************************)
(* Claims about a write that stops on a constraint.                        *)
(***************************************************************************)
SameBytes(d, e) == \A a \in (DOMAIN d) \cup (DOMAIN e) : ByteAt(d, a) = ByteAt(e, a)

\* the device holds what it held before write was called
DeviceUntouched == wlog = <<>> \/ \E image \in PriorImages : SameBytes(dev, image)

\* write has stopped on one of its constraints: too many partitions, a partition of the
\* wrong variant, a GPT partition without UUID, an LBA that the device is too small for
WriteStopped == pc = "panic" /\ table # NoTable

\* C30: when write does not complete because of a constraint, no byte of the device
\* has been modified.
C30_ValidationBeforeWrite == WriteStopped => DeviceUntouched

====
